---------------------------- MODULE Spec2Model ----------------------------
(***************************************************************************)
(* A model of the animation renderer of animator/services/renderer.py      *)
(* (class AnimationRenderer) over the data of animator/models.py.          *)
(*                                                                         *)
(* A float of the program is an exact rational <<numerator, denominator>>  *)
(* in lowest terms with a positive denominator, so the model computes what *)
(* the program computes up to floating-point rounding.  An integer of the  *)
(* program (fps, order, z_index, a frame number) is an integer.  A         *)
(* nullable value is the empty sequence for None and <<v>> for v.          *)
(***************************************************************************)
EXTENDS Integers, Sequences, FiniteSets, TLC

VARIABLES
    project,   \* the Project row with its scenes, characters and animations
    call,      \* the last call of a renderer method and what it returned
    pc,           \* render(): the position in the method
    render_transparent, \* render(): the argument transparent
    total_frames, \* render(): the local
    frame_num,    \* render(): the loop variable
    rendered,     \* render(): the calls of _render_frame_at_time made, in order
    written,      \* render(): the frame files written, in order
    temp_dir,     \* render(): its temporary directory: "none", "exists", "removed"
    output_path,  \* render(): the path it returned to its caller, None when none
    export,         \* render_export: the Export row
    user,           \* render_export: the row of export.project.user
    progress_calls, \* the values progress_callback was called with, in order
    encoder_calls,  \* the number of calls of _encode_video
    exception,      \* the message of the exception raised, "" when none was
    deducted,       \* the credits taken from the user so far
    image_cache,    \* the renderer's image_cache: path -> the buffer cached for it
    heap,           \* the pixel data of the buffers the renderer holds
    jobs            \* the render_export jobs running side by side for one user

renderVars ==
    <<pc, render_transparent, total_frames, frame_num, rendered, written, temp_dir,
      output_path>>

taskVars == <<export, user, progress_calls, encoder_calls, exception, deducted>>

cacheVars == <<image_cache, heap>>

vars == <<project, call, renderVars, taskVars, cacheVars, jobs>>

---------------------------------------------------------------------------
(* Bounds of the model *)

MaxScenes == 2
MaxSceneDuration == 2
MaxProjectHalfSeconds == 6
MaxFps == 2
MaxKeyframes == 2
MaxKeyframeTime == 2
MaxAnimations == 2
MaxAnimStart == 2
MaxAnimDuration == 2
MaxCharacters == 2
MaxEnterTime == 1
MaxExitTime == 1
MaxSceneTime == 3
MaxCanvasSide == 2
MaxLayerSide == 2
MaxOffset == 3
MaxFrameNumber == 3
MaxCredits == 6
MaxEaseQuarters == 10
MaxJobs == 2
MaxNeeded == 3

---------------------------------------------------------------------------
(* Exact arithmetic on rationals *)

Abs(x) == IF x < 0 THEN -x ELSE x

RECURSIVE Gcd(_, _)
Gcd(a, b) == IF b = 0 THEN a ELSE Gcd(b, a % b)

\* The rational n/d (d # 0) in lowest terms with a positive denominator.
Rat(n, d) ==
    LET s == IF d < 0 THEN -1 ELSE 1
        g == Gcd(Abs(n), Abs(d))
    IN  <<(s * n) \div g, (s * d) \div g>>

R(n) == <<n, 1>>

RAdd(a, b) == Rat(a[1] * b[2] + b[1] * a[2], a[2] * b[2])
RSub(a, b) == Rat(a[1] * b[2] - b[1] * a[2], a[2] * b[2])
RMul(a, b) == Rat(a[1] * b[1], a[2] * b[2])
RDiv(a, b) == Rat(a[1] * b[2], a[2] * b[1])
RLt(a, b) == a[1] * b[2] < b[1] * a[2]
RLe(a, b) == a[1] * b[2] <= b[1] * a[2]
RIsZero(a) == a[1] = 0
RAbs(a) == <<Abs(a[1]), a[2]>>

\* math.floor
RFloor(a) == a[1] \div a[2]

\* Python's float %, b # 0: a - b * floor(a / b), with the sign of b.
RMod(a, b) == RSub(a, RMul(b, R(RFloor(RDiv(a, b)))))

\* Python's int(): truncation toward zero.
RInt(a) == IF a[1] >= 0 THEN a[1] \div a[2] ELSE -((-a[1]) \div a[2])

\* Python's round(): to the nearest integer, a half to the even one.
RRound(a) ==
    LET f == RFloor(a)
        r == RSub(a, R(f))
    IN  IF RLt(r, Rat(1, 2)) THEN f
        ELSE IF RLt(Rat(1, 2), r) THEN f + 1
        ELSE IF f % 2 = 0 THEN f ELSE f + 1

\* A nullable value.
None == <<>>
Some(v) == <<v>>
IsNone(o) == o = <<>>

---------------------------------------------------------------------------
(* Easing *)

\* Animation.EASING_CHOICES, and a kind outside them.
EasingKinds == {"linear", "ease-in", "ease-out", "ease-in-out", "bounce", "other"}

\* pow(x, 2), pow(x, 4)
Pow2(x) == RMul(x, x)
Pow4(x) == RMul(Pow2(x), Pow2(x))

\* _ease(t, easing)
_ease(t, easing) ==
    IF easing = "linear" THEN t
    ELSE IF easing = "ease-in" THEN RMul(t, t)
    ELSE IF easing = "ease-out" THEN RSub(R(1), RMul(RSub(R(1), t), RSub(R(1), t)))
    ELSE IF easing = "ease-in-out" THEN
        IF RLt(t, Rat(1, 2)) THEN RMul(R(2), RMul(t, t))
        ELSE RSub(R(1), RDiv(Pow2(RAdd(RMul(R(-2), t), R(2))), R(2)))
    ELSE IF easing = "bounce" THEN
        IF RLt(t, Rat(1, 2)) THEN RMul(R(8), Pow4(t))
        ELSE RSub(R(1), RDiv(Pow4(RAdd(RMul(R(-2), t), R(2))), R(2)))
    ELSE t

---------------------------------------------------------------------------
(* Keyframe interpolation.  A keyframe is [time, joints], joints a         *)
(* function from the joint names the keyframe gives to their rotation.     *)

\* kf.get('joints', {}).get(joint_name, {'rotation': 0}).get('rotation', 0)
JointRotation(kf, joint_name) ==
    IF joint_name \in DOMAIN kf.joints THEN kf.joints[joint_name] ELSE R(0)

\* The loop of _apply_motion over enumerate(keyframes) from index i on, with
\* prev_kf = keyframes[p] and next_kf = keyframes[n]: the indexes it ends with.
RECURSIVE SurroundingFrom(_, _, _, _, _)
SurroundingFrom(keyframes, local_time, i, p, n) ==
    IF i > Len(keyframes) THEN <<p, n>>
    ELSE IF RLe(keyframes[i].time, local_time)
         THEN SurroundingFrom(keyframes, local_time, i + 1, i,
                              IF i + 1 <= Len(keyframes) THEN i + 1 ELSE i)
         ELSE <<p, i>>

\* The same loop with `kf['time'] < local_time` for its test.
RECURSIVE SurroundingStrictFrom(_, _, _, _, _)
SurroundingStrictFrom(keyframes, local_time, i, p, n) ==
    IF i > Len(keyframes) THEN <<p, n>>
    ELSE IF RLt(keyframes[i].time, local_time)
         THEN SurroundingStrictFrom(keyframes, local_time, i + 1, i,
                                    IF i + 1 <= Len(keyframes) THEN i + 1 ELSE i)
         ELSE <<p, i>>

SurroundingStrict(keyframes, local_time) ==
    SurroundingStrictFrom(keyframes, local_time, 1, 1, Len(keyframes))

\* "Find surrounding keyframes": prev_kf = keyframes[0], next_kf = keyframes[-1],
\* then the loop.  The indexes <<prev, next>>, counted from 1.
Surrounding(keyframes, local_time) ==
    SurroundingFrom(keyframes, local_time, 1, 1, Len(keyframes))

\* "Calculate interpolation factor"
Factor(prev_kf, next_kf, local_time, easing) ==
    LET time_range == RSub(next_kf.time, prev_kf.time)
    IN  IF RLt(R(0), time_range)
        THEN _ease(RDiv(RSub(local_time, prev_kf.time), time_range), easing)
        ELSE R(0)

\* The interpolation with the two weights exchanged.
InterpolateSwapped(prev_kf, next_kf, t) ==
    [joint_name \in (DOMAIN prev_kf.joints) \cup (DOMAIN next_kf.joints) |->
        RAdd(RMul(JointRotation(prev_kf, joint_name), t),
             RMul(JointRotation(next_kf, joint_name), RSub(R(1), t)))]

\* "Interpolate joint values"
Interpolate(prev_kf, next_kf, t) ==
    [joint_name \in (DOMAIN prev_kf.joints) \cup (DOMAIN next_kf.joints) |->
        RAdd(RMul(JointRotation(prev_kf, joint_name), RSub(R(1), t)),
             RMul(JointRotation(next_kf, joint_name), t))]

\* No joints: what a call that interpolated nothing leaves.
NoJoints == [joint_name \in {} |-> R(0)]

\* _deform_image(image, rig_data, joints): an image keeps, in deform, the
\* rotation it was warped by (0 when it was not warped).
_deform_image(image, rig_data, joints) ==
    IF ~rig_data.has_joints THEN image
    ELSE LET spine_rotation ==
                 IF "spine" \in DOMAIN joints THEN joints["spine"] ELSE R(0)
         IN  IF RLt(Rat(1, 10), RAbs(spine_rotation))
             THEN [image EXCEPT !.deform = spine_rotation]
             ELSE image

\* The motion data _apply_motion picks: the preset's, else the inline
\* keyframes when the list is not empty, else {}.
MotionData(animation) ==
    IF ~IsNone(animation.motion_preset) THEN animation.motion_preset[1].motion_data
    ELSE IF animation.keyframes # <<>> THEN [keyframes |-> Some(animation.keyframes)]
    ELSE [keyframes |-> None]

\* What _apply_motion returns when it returns the image as it got it
\* (`return image`): nothing raised, nothing interpolated.
Still(image) ==
    [raised |-> FALSE, moved |-> FALSE, image |-> image,
     prev |-> 0, next |-> 0, t |-> R(0), joints |-> NoJoints]

\* _apply_motion(image, animation, rig_data, local_time).  Beside the image it
\* returns, the result tells what the call did: raised (keyframes[0] of an
\* empty list), moved (it interpolated), and the factor and joints it found.
_apply_motion(image, animation, rig_data, local_time) ==
    LET motion_data == MotionData(animation)
        still == Still(image)
    IN  IF IsNone(motion_data.keyframes) THEN still
        ELSE LET keyframes == motion_data.keyframes[1]
             IN  IF keyframes = <<>> THEN [still EXCEPT !.raised = TRUE]
                 ELSE LET s == Surrounding(keyframes, local_time)
                          prev_kf == keyframes[s[1]]
                          next_kf == keyframes[s[2]]
                          t == Factor(prev_kf, next_kf, local_time, animation.easing)
                          interpolated_joints == Interpolate(prev_kf, next_kf, t)
                      IN  [raised |-> FALSE, moved |-> TRUE,
                           image |-> _deform_image(image, rig_data, interpolated_joints),
                           prev |-> s[1], next |-> s[2], t |-> t,
                           joints |-> interpolated_joints]

---------------------------------------------------------------------------
(* The active animation of a scene character *)

\* The result of _apply_animations when no animation is applied.
Unanimated(image) ==
    [raised |-> FALSE, applied |-> 0, local_time |-> R(0), image |-> image,
     motion |-> Still(image)]

\* The result of _apply_animations when it returns what _apply_motion
\* returned (m) for animations[i] at local_time.
AnimatedBy(m, i, local_time) ==
    [raised |-> m.raised, applied |-> i, local_time |-> local_time,
     image |-> m.image, motion |-> m]

\* `return self._apply_motion(image, anim, rig_data, local_time)`
Animated(image, animations, rig_data, i, local_time) ==
    AnimatedBy(_apply_motion(image, animations[i], rig_data, local_time), i, local_time)

\* The duration without the speed multiplier.
UnscaledDuration(anim) == anim.duration

\* anim.duration * anim.speed_multiplier
EffectiveDuration(anim) == RMul(anim.duration, anim.speed_multiplier)

\* The local time of a looping animation without the wrap.
UnwrappedLocalTime(time, anim_start, anim_duration) == RSub(time, anim_start)

\* (time - anim_start) % anim_duration
LoopLocalTime(time, anim_start, anim_duration) ==
    RMod(RSub(time, anim_start), anim_duration)

\* The loop "Find active animation" of _apply_animations from animations[i] on.
\* A looping animation of effective duration 0 raises ZeroDivisionError.
RECURSIVE ApplyAnimationsFrom(_, _, _, _, _)
ApplyAnimationsFrom(image, animations, rig_data, time, i) ==
    IF i > Len(animations) THEN Unanimated(image)
    ELSE LET anim == animations[i]
             anim_start == anim.start_time
             anim_duration == EffectiveDuration(anim)
         IN  IF anim.loop
             THEN IF RLe(anim_start, time)
                  THEN IF RIsZero(anim_duration)
                       THEN [Unanimated(image) EXCEPT !.raised = TRUE, !.applied = i]
                       ELSE Animated(image, animations, rig_data, i,
                                     LoopLocalTime(time, anim_start, anim_duration))
                  ELSE ApplyAnimationsFrom(image, animations, rig_data, time, i + 1)
             ELSE IF RLe(anim_start, time) /\ RLt(time, RAdd(anim_start, anim_duration))
                  THEN Animated(image, animations, rig_data, i, RSub(time, anim_start))
                  ELSE ApplyAnimationsFrom(image, animations, rig_data, time, i + 1)

\* The loop run from the last animation to the first: the last active
\* animation wins.
RECURSIVE ApplyAnimationsBackFrom(_, _, _, _, _)
ApplyAnimationsBackFrom(image, animations, rig_data, time, i) ==
    IF i < 1 THEN Unanimated(image)
    ELSE LET anim == animations[i]
             anim_start == anim.start_time
             anim_duration == EffectiveDuration(anim)
         IN  IF anim.loop /\ RLe(anim_start, time) /\ ~RIsZero(anim_duration)
             THEN Animated(image, animations, rig_data, i,
                           LoopLocalTime(time, anim_start, anim_duration))
             ELSE IF /\ ~anim.loop
                     /\ RLe(anim_start, time)
                     /\ RLt(time, RAdd(anim_start, anim_duration))
                  THEN Animated(image, animations, rig_data, i, RSub(time, anim_start))
                  ELSE ApplyAnimationsBackFrom(image, animations, rig_data, time, i - 1)

ApplyLastActive(image, scene_char, rig_data, time) ==
    ApplyAnimationsBackFrom(image, scene_char.animations, rig_data, time,
                            Len(scene_char.animations))

\* _apply_animations(image, scene_char, rig_data, time): scene_char.animations
\* is the list in the order animations.all() gives it.
_apply_animations(image, scene_char, rig_data, time) ==
    IF scene_char.animations = <<>> THEN Unanimated(image)
    ELSE ApplyAnimationsFrom(image, scene_char.animations, rig_data, time, 1)

---------------------------------------------------------------------------
(* Images and the canvas.  An image is [w, h, colour, alpha, deform]: w x h *)
(* pixels of one colour (one number for the three colour channels, which   *)
(* the program computes alike), alpha None for a 3-channel image.  A       *)
(* canvas is [w, h, channels, px], px[<<x, y>>] = [c, a]; a is 255 on a    *)
(* 3-channel canvas.                                                       *)

Min(a, b) == IF a < b THEN a ELSE b
Max(a, b) == IF a > b THEN a ELSE b

Pixels(w, h) == (0..(w - 1)) \X (0..(h - 1))

\* np.zeros((h, w, 4)) when transparent, else a canvas filled with bg_color.
NewCanvas(w, h, transparent, bg_color) ==
    [w |-> w, h |-> h, channels |-> IF transparent THEN 4 ELSE 3,
     px |-> [p \in Pixels(w, h) |->
                IF transparent THEN [c |-> 0, a |-> 0] ELSE [c |-> bg_color, a |-> 255]]]

\* (alpha * overlay_rgb + (1 - alpha) * canvas_rgb).astype(np.uint8),
\* alpha = overlay alpha / 255.0
Blend(overlay_c, overlay_a, canvas_c) ==
    LET alpha == Rat(overlay_a, 255)
    IN  RInt(RAdd(RMul(alpha, R(overlay_c)), RMul(RSub(R(1), alpha), R(canvas_c)))) % 256

\* The same with the region not cut to the overlay's right and lower edge.
AlphaCompositeUnclipped(canvas, overlay, x, y) ==
    [canvas EXCEPT !.px =
        [p \in DOMAIN canvas.px |->
            IF p[1] >= Max(0, x) /\ p[2] >= Max(0, y)
            THEN [c |-> overlay.colour, a |-> canvas.px[p].a]
            ELSE canvas.px[p]]]

\* _alpha_composite(canvas, overlay, x, y)
_alpha_composite(canvas, overlay, x, y) ==
    LET x1 == Max(0, x)
        y1 == Max(0, y)
        x2 == Min(canvas.w, x + overlay.w)
        y2 == Min(canvas.h, y + overlay.h)
        region == {p \in DOMAIN canvas.px :
                      x1 <= p[1] /\ p[1] < x2 /\ y1 <= p[2] /\ p[2] < y2}
    IN  IF x1 >= x2 \/ y1 >= y2 THEN canvas
        ELSE [canvas EXCEPT !.px =
                [p \in DOMAIN canvas.px |->
                    IF p \notin region THEN canvas.px[p]
                    ELSE IF ~IsNone(overlay.alpha)
                         THEN IF canvas.channels = 4
                              THEN [c |-> Blend(overlay.colour, overlay.alpha[1],
                                                canvas.px[p].c),
                                    a |-> Max(canvas.px[p].a, overlay.alpha[1])]
                              ELSE [c |-> Blend(overlay.colour, overlay.alpha[1],
                                                canvas.px[p].c),
                                    a |-> canvas.px[p].a]
                         ELSE [c |-> overlay.colour, a |-> canvas.px[p].a]]]

\* abs(cos), abs(sin) of a rotation that is a multiple of 90 degrees.
AbsCosSin(rotation) ==
    IF RIsZero(RMod(rotation, R(180))) THEN <<1, 0>> ELSE <<0, 1>>

\* The size _composite_image gives the image: scaled, then the bounds of the
\* rotated image.
TransformedSize(image, scale, rotation) ==
    LET w1 == IF scale # R(1) THEN RInt(RMul(R(image.w), scale)) ELSE image.w
        h1 == IF scale # R(1) THEN RInt(RMul(R(image.h), scale)) ELSE image.h
        cs == AbsCosSin(rotation)
    IN  IF ~RIsZero(rotation)
        THEN <<h1 * cs[2] + w1 * cs[1], h1 * cs[1] + w1 * cs[2]>>
        ELSE <<w1, h1>>

\* _composite_image(canvas, image, x, y, scale, rotation): the image centred
\* on (x, y).
_composite_image(canvas, image, x, y, scale, rotation) ==
    LET size == TransformedSize(image, scale, rotation)
        w == size[1]
        h == size[2]
        pos_x == RInt(RSub(x, Rat(w, 2)))
        pos_y == RInt(RSub(y, Rat(h, 2)))
    IN  _alpha_composite(canvas, [image EXCEPT !.w = w, !.h = h], pos_x, pos_y)

---------------------------------------------------------------------------
(* Rendering a scene *)

\* A loader that gives a black image where cv2.imread gives None.
LoadImageOrBlack(file) ==
    IF file.image = <<>>
    THEN <<[w |-> 1, h |-> 1, colour |-> 0, alpha |-> <<>>, deform |-> <<0, 1>>]>>
    ELSE file.image

\* _load_image(path): the decoded image, None when cv2.imread cannot decode it.
_load_image(file) == file.image

\* An opacity without the fade: 1 for every kind.
OverlayAlphaFull(overlay, time) == R(1)

\* The opacity _render_text_overlay computes ("Apply animation").
OverlayAlpha(overlay, time) ==
    LET fade_duration == Rat(1, 2)
    IN  IF overlay.animation = "fade"
        THEN IF RLt(time, fade_duration) THEN RDiv(time, fade_duration)
             ELSE IF RLt(RSub(overlay.duration, fade_duration), time)
                  THEN RDiv(RSub(overlay.duration, time), fade_duration)
                  ELSE R(1)
        ELSE R(1)

\* _render_text_overlay(canvas, overlay, time) on a canvas of the project's
\* width and height: the text is one pixel at (text_x, text_y); the two
\* cvtColor calls leave a 3-channel canvas.
_render_text_overlay(canvas, overlay, time, width, height) ==
    LET text_x == RInt(RDiv(RMul(overlay.position_x, R(width)), R(100)))
        text_y == RInt(RDiv(RMul(overlay.position_y, R(height)), R(100)))
        alpha == OverlayAlpha(overlay, time)
    IN  [canvas EXCEPT
            !.channels = 3,
            !.px = [p \in DOMAIN canvas.px |->
                       IF RLe(Rat(1, 10), alpha) /\ p = <<text_x, text_y>>
                       THEN [c |-> overlay.color, a |-> 255]
                       ELSE [c |-> canvas.px[p].c, a |-> 255]]]

\* _apply_camera(canvas, scene): cv2.warpAffine by the matrix of
\* getRotationMatrix2D(center, 0, zoom), each pixel taken from the source
\* pixel its centre maps back to, white where that is outside the canvas.
_apply_camera(canvas, scene) ==
    LET center_x == RAdd(Rat(canvas.w, 2), scene.camera_x)
        center_y == RAdd(Rat(canvas.h, 2), scene.camera_y)
        zoom == scene.camera_zoom
        src(v, center) ==
            RFloor(RAdd(RDiv(RSub(R(v), RMul(RSub(R(1), zoom), center)), zoom),
                        Rat(1, 2)))
    IN  [canvas EXCEPT !.px =
            [p \in DOMAIN canvas.px |->
                LET q == <<src(p[1], center_x), src(p[2], center_y)>>
                IN  IF q \in DOMAIN canvas.px THEN canvas.px[q]
                    ELSE [c |-> 255, a |-> IF canvas.channels = 4 THEN 0 ELSE 255]]]

\* QuerySet.order_by(key) on rows of the given keys: the orders the database
\* may return the rows in, as sequences of indexes into the rows; rows of
\* equal key come in any order.
OrderBy(keys) ==
    {o \in [1..Len(keys) -> 1..Len(keys)] :
        /\ \A i, j \in 1..Len(keys) : i # j => o[i] # o[j]
        /\ \A i \in 1..(Len(keys) - 1) : keys[o[i]] <= keys[o[i + 1]]}

\* "Check if character is visible at this time": the two `continue`s.
Skipped(scene_char, time) ==
    \/ RLt(time, scene_char.enter_time)
    \/ /\ ~IsNone(scene_char.exit_time)
       /\ ~RIsZero(scene_char.exit_time[1])      \* `if scene_char.exit_time and`
       /\ RLe(scene_char.exit_time[1], time)

\* One layer of the frame, in the order the layers were composited.
Layer(kind, id) == [kind |-> kind, id |-> id]

\* The loop "Draw characters sorted by z-index" from the i-th character of
\* the order z_order on; st is [raised, canvas, layers].  cv2.flip mirrors
\* the image about its vertical axis, which leaves an image of one colour
\* as it is, so flip_horizontal has no field here.
\* "Composite onto canvas": the character of index id, animated being what
\* _apply_animations returned for it; an exception it raised goes on.
DrawCharacter(st, scene_char, id, animated) ==
    IF animated.raised THEN [st EXCEPT !.raised = TRUE]
    ELSE [raised |-> FALSE,
          canvas |-> _composite_image(st.canvas, animated.image,
                                      scene_char.position_x, scene_char.position_y,
                                      scene_char.scale, scene_char.rotation),
          layers |-> Append(st.layers, Layer("character", id))]

RECURSIVE DrawCharactersFrom(_, _, _, _, _)
DrawCharactersFrom(st, scene, z_order, time, i) ==
    IF i > Len(z_order) \/ st.raised THEN st
    ELSE LET scene_char == scene.scene_characters[z_order[i]]
             char == scene_char.character
             char_image == _load_image(char)
         IN  IF Skipped(scene_char, time) \/ IsNone(char_image)
             THEN DrawCharactersFrom(st, scene, z_order, time, i + 1)
             ELSE DrawCharactersFrom(
                      DrawCharacter(st, scene_char, z_order[i],
                                    _apply_animations(char_image[1], scene_char,
                                                      char.rig_data, time)),
                      scene, z_order, time, i + 1)

\* The loop "Draw text overlays" from the i-th overlay on.
RECURSIVE DrawOverlaysFrom(_, _, _, _, _, _)
DrawOverlaysFrom(st, scene, time, width, height, i) ==
    IF i > Len(scene.text_overlays) \/ st.raised THEN st
    ELSE LET overlay == scene.text_overlays[i]
         IN  IF /\ RLe(overlay.start_time, time)
                /\ RLt(time, RAdd(overlay.start_time, overlay.duration))
             THEN DrawOverlaysFrom(
                      [st EXCEPT
                          !.canvas = _render_text_overlay(
                                         st.canvas, overlay,
                                         RSub(time, overlay.start_time), width, height),
                          !.layers = Append(st.layers, Layer("text", i))],
                      scene, time, width, height, i + 1)
             ELSE DrawOverlaysFrom(st, scene, time, width, height, i + 1)

\* _render_scene_at_time(scene, time, transparent) for a renderer of the
\* given width and height, the characters coming in the order z_order.
\* "Draw background": the canvas, and on it the background image if the
\* scene has one that loads.
DrawBackground(scene, transparent, width, height) ==
    LET canvas == NewCanvas(width, height, transparent, scene.background_color)
        bg_image == IF IsNone(scene.background) THEN None
                    ELSE _load_image(scene.background[1])
    IN  IF IsNone(bg_image)
        THEN [raised |-> FALSE, canvas |-> canvas, layers |-> <<>>]
        ELSE [raised |-> FALSE,
              canvas |-> _composite_image(canvas, bg_image[1], R(0), R(0), R(1), R(0)),
              layers |-> <<Layer("background", 0)>>]

\* "Apply camera transform (zoom, pan)" when the scene's camera is not the
\* default one.
DrawCamera(st, scene) ==
    IF st.raised THEN st
    ELSE IF \/ scene.camera_zoom # R(1)
            \/ ~RIsZero(scene.camera_x)
            \/ ~RIsZero(scene.camera_y)
         THEN [st EXCEPT !.canvas = _apply_camera(st.canvas, scene),
                         !.layers = Append(st.layers, Layer("camera", 0))]
         ELSE st

_render_scene_at_time(scene, z_order, time, transparent, width, height) ==
    DrawCamera(
        DrawOverlaysFrom(
            DrawCharactersFrom(DrawBackground(scene, transparent, width, height),
                               scene, z_order, time, 1),
            scene, time, width, height, 1),
        scene)

---------------------------------------------------------------------------
(* The timeline *)

\* The scene time without the accumulated time taken off.
GlobalTime(time, current_time) == time

\* scene_time = time - current_time
SceneTime(time, current_time) == RSub(time, current_time)

\* `return self._render_scene_at_time(scene, scene_time, transparent)`: the
\* frame is what the call returned (r); it tells, beside its canvas, the
\* scene rendered (0: none) and the scene time it was rendered at.
FrameOfScene(r, scene, scene_time) ==
    [raised |-> r.raised, scene |-> scene, scene_time |-> scene_time,
     layers |-> r.layers, canvas |-> r.canvas]

\* The loop "Find active scene at this time" of _render_frame_at_time from
\* the i-th scene of the order on, current_time being the time accumulated.
RECURSIVE FindSceneFrom(_, _, _, _, _, _, _)
FindSceneFrom(proj, order, z_orders, time, transparent, i, current_time) ==
    IF i > Len(order)
    THEN [raised |-> FALSE, scene |-> 0, scene_time |-> R(0), layers |-> <<>>,
          canvas |-> NewCanvas(proj.width, proj.height, transparent, 255)]
    ELSE LET scene == proj.scenes[order[i]]
             scene_end == RAdd(current_time, scene.duration)
         IN  IF RLe(current_time, time) /\ RLt(time, scene_end)
             THEN FrameOfScene(
                      _render_scene_at_time(scene, z_orders[order[i]],
                                            SceneTime(time, current_time),
                                            transparent, proj.width, proj.height),
                      order[i], SceneTime(time, current_time))
             ELSE FindSceneFrom(proj, order, z_orders, time, transparent, i + 1,
                                scene_end)

\* _render_frame_at_time(time, transparent): order is the order
\* scenes.all().order_by('order') returns the scenes in, z_orders[s] the order
\* scene_characters.all().order_by('z_index') returns the characters of scene s in.
_render_frame_at_time(proj, order, z_orders, time, transparent) ==
    FindSceneFrom(proj, order, z_orders, time, transparent, 1, R(0))

\* self.project.scenes.all().order_by('order')
SceneOrders(proj) == OrderBy([k \in 1..Len(proj.scenes) |-> proj.scenes[k].order])

\* scene.scene_characters.all().order_by('-z_index')
CharacterOrdersDescending(scene) ==
    OrderBy([k \in 1..Len(scene.scene_characters) |-> -scene.scene_characters[k].z_index])

\* scene.scene_characters.all().order_by('z_index')
CharacterOrders(scene) ==
    OrderBy([k \in 1..Len(scene.scene_characters) |-> scene.scene_characters[k].z_index])

\* One order of the characters for every scene of the project.
ZOrders(proj) ==
    {z \in [1..Len(proj.scenes) ->
                UNION {CharacterOrders(proj.scenes[k]) : k \in 1..Len(proj.scenes)}] :
        \A k \in 1..Len(proj.scenes) : z[k] \in CharacterOrders(proj.scenes[k])}

---------------------------------------------------------------------------
(* The rows of a project *)

\* A decoded image of one pixel.
ImageOf(colour, alpha) ==
    [w |-> 1, h |-> 1, colour |-> colour, alpha |-> alpha, deform |-> R(0)]

\* A Character whose image decodes, with a rig.
CharacterOf(image) == [image |-> Some(image), rig_data |-> [has_joints |-> TRUE]]

\* An Animation with inline keyframes.
AnimationOf(start_time, duration, speed_multiplier, loop, easing, keyframes) ==
    [motion_preset |-> None, keyframes |-> keyframes, start_time |-> start_time,
     duration |-> duration, speed_multiplier |-> speed_multiplier, loop |-> loop,
     easing |-> easing]

\* A SceneCharacter with the defaults of the model's fields.
SceneCharacterOf(character, z_index, enter_time, exit_time, animations) ==
    [character |-> character, position_x |-> R(0), position_y |-> R(0),
     scale |-> R(1), rotation |-> R(0), z_index |-> z_index,
     flip_horizontal |-> FALSE, enter_time |-> enter_time, exit_time |-> exit_time,
     animations |-> animations]

\* A Scene with the defaults of the model's fields: a white background
\* colour, no background image, the camera at rest.
SceneOf(order, duration, scene_characters, text_overlays) ==
    [order |-> order, duration |-> duration, background |-> None,
     background_color |-> 255, camera_zoom |-> R(1), camera_x |-> R(0),
     camera_y |-> R(0), scene_characters |-> scene_characters,
     text_overlays |-> text_overlays]

\* A Project of one pixel.
ProjectOf(fps, duration_seconds, scenes) ==
    [width |-> 1, height |-> 1, fps |-> fps, duration_seconds |-> duration_seconds,
     scenes |-> scenes]

\* Sequences over S of a length in lo..hi.
SeqsOf(S, lo, hi) == UNION {[1..n -> S] : n \in lo..hi}

\* render() has not been called.
NotRendering ==
    /\ pc = "idle"
    /\ render_transparent = FALSE
    /\ total_frames = 0
    /\ frame_num = 0
    /\ rendered = <<>>
    /\ written = <<>>
    /\ temp_dir = "none"
    /\ output_path = None

\* An Export of the given quality as it is created (the fields' defaults),
\* queued for render_export, and the user it is for.
Queued(quality, the_user) ==
    /\ export = [status |-> "queued", progress |-> 0, error_message |-> "",
                 credits_used |-> 0, quality |-> quality]
    /\ user = the_user
    /\ progress_calls = <<>>
    /\ encoder_calls = 0
    /\ exception = ""
    /\ deducted = 0

\* The renderer as __init__ leaves it: self.image_cache = {}
EmptyCache ==
    /\ image_cache = <<>>
    /\ heap = <<>>

\* No job runs beside the export.
NoJobs == jobs = <<>>

\* Nothing has run: the export of a user with an active plan is queued.
Idle ==
    /\ NotRendering
    /\ EmptyCache
    /\ NoJobs
    /\ Queued("high", [credits |-> 0, is_plan_active |-> TRUE])

NoCall == [op |-> "none"]

---------------------------------------------------------------------------
(* The calls *)

\* Scene-local times: the half-unit grid up to MaxSceneTime.
SceneTimes == {Rat(k, 2) : k \in 0..(2 * MaxSceneTime)}

\* The scene character the animation calls are made for, and its animations.
TheCharacter == project.scenes[1].scene_characters[1]
TheAnimations == TheCharacter.animations

\* _render_scene_at_time's call of _apply_animations for the character at
\* some scene-local time.  The method keeps nothing from one call to the
\* next, so a behaviour makes one call.
ApplyAnimations ==
    \E time \in SceneTimes :
        /\ pc = "idle"
        /\ call = NoCall
        /\ ~IsNone(TheCharacter.character.image)
        /\ call' = [op |-> "_apply_animations", time |-> time,
                    result |-> _apply_animations(TheCharacter.character.image[1],
                                                 TheCharacter,
                                                 TheCharacter.character.rig_data, time)]
        /\ UNCHANGED <<cacheVars, jobs, project, renderVars, taskVars>>

\* A call of _render_scene_at_time at some scene-local time: from
\* render_frame (the preview, never transparent) or from
\* _render_frame_at_time.  The database returns the characters in one of the
\* orders order_by('z_index') allows.
RenderSceneAtTime ==
    \E time \in {R(k) : k \in 0..MaxSceneTime}, transparent \in BOOLEAN,
       z_order \in CharacterOrders(project.scenes[1]) :
        /\ pc = "idle"
        /\ call = NoCall
        /\ call' = [op |-> "_render_scene_at_time", time |-> time,
                    transparent |-> transparent, z_order |-> z_order,
                    result |-> _render_scene_at_time(project.scenes[1], z_order, time,
                                                     transparent, project.width,
                                                     project.height)]
        /\ UNCHANGED <<cacheVars, jobs, project, renderVars, taskVars>>

\* The frame count a rounding render() would compute.
TotalFramesRounded(duration, fps) == RRound(RMul(duration, R(fps)))

\* "Calculate total frames": int(self.duration * self.fps)
TotalFrames(duration, fps) == RInt(RMul(duration, R(fps)))

\* quality_multiplier.get(export.quality, 1)
QualityMultiplier(quality) ==
    IF quality = "low" THEN 1
    ELSE IF quality = "medium" THEN 2
    ELSE IF quality = "high" THEN 3
    ELSE IF quality = "ultra" THEN 5
    ELSE 1

\* credits_needed = int(duration * quality_multiplier.get(export.quality, 1))
CreditsNeeded == RInt(RMul(project.duration_seconds, R(QualityMultiplier(export.quality))))

\* "Check user credits"
InsufficientCredits == user.credits < CreditsNeeded /\ ~user.is_plan_active

\* The progress after the frame that follows frame_num, out of 100.
RenderProgressOfNext(frame, total) == RInt(RMul(Rat(frame + 1, total), R(100)))

\* render_progress = int((frame_num / total_frames) * 80)
RenderProgress(frame, total) == RInt(RMul(Rat(frame, total), R(80)))

\* str(e) of the CalledProcessError of subprocess.run(..., check=True).
EncoderError == "CalledProcessError"

\* str(e) of an exception raised while a frame is rendered.
FrameError == "raised in _render_frame_at_time"

\* A render() whose cleanup runs only when it returns.
LeaveRenderOnSuccess(raising) == IF raising THEN "exists" ELSE "removed"

\* render()'s `finally`: shutil.rmtree(temp_dir, ignore_errors=True) on the
\* way out, raising or not; what temp_dir is afterwards.
LeaveRender(raising) == "removed"

\* The path _encode_video returns: a file under MEDIA_ROOT/exports.
OutputPath == "exports/export"

\* render_export starts: the status 'processing' is saved.
StartExport ==
    /\ pc = "idle"
    /\ call = NoCall
    /\ export.status = "queued"
    /\ export' = [export EXCEPT !.status = "processing"]
    /\ pc' = "processing"
    /\ UNCHANGED <<cacheVars, jobs, project, call, render_transparent, total_frames,
                   frame_num, rendered, written, temp_dir, output_path, user,
                   progress_calls, encoder_calls, exception, deducted>>

\* The credits are checked; without enough of them the export is saved as
\* failed and render_export returns.  Else render() is called (the export's
\* transparent_background being either): the frame count is computed, the
\* temporary directory made and the loop entered.
RenderStart ==
    \E tr \in BOOLEAN :
        /\ pc = "processing"
        /\ IF InsufficientCredits
           THEN /\ export' = [export EXCEPT !.status = "failed",
                                            !.error_message = "Insufficient credits"]
                /\ pc' = "returned"
                /\ UNCHANGED <<render_transparent, total_frames, frame_num, temp_dir>>
           ELSE /\ render_transparent' = tr
                /\ total_frames' = TotalFrames(project.duration_seconds, project.fps)
                /\ frame_num' = 0
                /\ temp_dir' = "exists"
                /\ pc' = "frame"
                /\ UNCHANGED export
        /\ UNCHANGED <<cacheVars, jobs, project, call, rendered, written, output_path,
                       user, progress_calls, encoder_calls, exception, deducted>>

\* The loop body up to the frame: _render_frame_at_time(frame_num / fps),
\* the database returning scenes and characters in one of the orders their
\* order_by allows.  An exception leaves render() through its finally.
RenderFrame ==
    \E order \in SceneOrders(project), z_orders \in ZOrders(project) :
        LET time == Rat(frame_num, project.fps)
            frame == _render_frame_at_time(project, order, z_orders, time,
                                           render_transparent)
        IN  /\ pc = "frame"
            /\ frame_num < total_frames
            /\ call' = [op |-> "_render_frame_at_time", time |-> time,
                        order |-> order, result |-> frame]
            /\ rendered' = Append(rendered, [frame_num |-> frame_num, time |-> time])
            /\ pc' = IF call'.result.raised THEN "raised" ELSE "write"
            /\ exception' = IF call'.result.raised THEN FrameError ELSE exception
            /\ temp_dir' = IF call'.result.raised THEN LeaveRender(TRUE) ELSE temp_dir
            /\ UNCHANGED <<cacheVars, jobs, project, render_transparent, total_frames,
                           frame_num, written, output_path, export, user, progress_calls,
                           encoder_calls, deducted>>

\* The rest of the loop body: cv2.imwrite of frame_{frame_num:06d}.png, then
\* "Report progress": progress_callback saves the value on the Export.
WriteFrame ==
    /\ pc = "write"
    /\ written' = Append(written, frame_num)
    /\ progress_calls' = Append(progress_calls, RenderProgress(frame_num, total_frames))
    /\ export' = [export EXCEPT !.progress = RenderProgress(frame_num, total_frames)]
    /\ frame_num' = frame_num + 1
    /\ pc' = "frame"
    /\ UNCHANGED <<cacheVars, jobs, project, call, render_transparent, total_frames,
                   rendered, temp_dir, output_path, user, encoder_calls, exception,
                   deducted>>

\* The loop is over: _encode_video.  When ffmpeg fails, subprocess.run raises
\* and render() is left through its finally; else progress_callback(100)
\* and render() returns the output path, through its finally as well.
Encode ==
    \E ok \in BOOLEAN :
        /\ pc = "frame"
        /\ frame_num >= total_frames
        /\ encoder_calls' = encoder_calls + 1
        /\ temp_dir' = LeaveRender(~ok)
        /\ IF ok
           THEN /\ progress_calls' = Append(progress_calls, 100)
                /\ export' = [export EXCEPT !.progress = 100]
                /\ output_path' = Some(OutputPath)
                /\ pc' = "done"
                /\ UNCHANGED exception
           ELSE /\ exception' = EncoderError
                /\ pc' = "raised"
                /\ UNCHANGED <<progress_calls, export, output_path>>
        /\ UNCHANGED <<cacheVars, jobs, project, call, render_transparent, total_frames,
                       frame_num, rendered, written, user, deducted>>

\* The handler that also takes the credits of the export from the user.
FailExportCharging ==
    /\ pc = "raised"
    /\ export' = [export EXCEPT !.status = "failed", !.error_message = exception]
    /\ user' = [user EXCEPT !.credits = user.credits - CreditsNeeded]
    /\ deducted' = deducted + CreditsNeeded
    /\ pc' = "returned"
    /\ UNCHANGED <<cacheVars, jobs, project, call, render_transparent, total_frames,
                   frame_num, rendered, written, temp_dir, output_path, progress_calls,
                   encoder_calls, exception>>

\* `except Exception as e`: the export is saved as failed with str(e) for its
\* error_message, and render_export returns.
FailExport ==
    /\ pc = "raised"
    /\ export' = [export EXCEPT !.status = "failed", !.error_message = exception]
    /\ pc' = "returned"
    /\ UNCHANGED <<cacheVars, jobs, project, call, render_transparent, total_frames,
                   frame_num, rendered, written, temp_dir, output_path, user,
                   progress_calls, encoder_calls, exception, deducted>>

\* render() has returned: "Save output file" (open, output_file.save,
\* os.path.getsize), any of which may raise OSError, and then the export is
\* saved as completed.
CompleteExport ==
    \E ok \in BOOLEAN :
        /\ pc = "done"
        /\ IF ok
           THEN /\ export' = [export EXCEPT !.status = "completed",
                                            !.credits_used = CreditsNeeded,
                                            !.progress = 100]
                /\ pc' = "completed"
                /\ UNCHANGED exception
           ELSE /\ exception' = "OSError"
                /\ pc' = "raised"
                /\ UNCHANGED export
        /\ UNCHANGED <<cacheVars, jobs, project, call, render_transparent, total_frames,
                       frame_num, rendered, written, temp_dir, output_path, user,
                       progress_calls, encoder_calls, deducted>>

\* "Deduct credits" from a user without an active plan: user.credits -=
\* credits_needed and user.save(), which may raise DatabaseError.
DeductCredits ==
    \E ok \in BOOLEAN :
        /\ pc = "completed"
        /\ IF user.is_plan_active
           THEN /\ pc' = "deducted"
                /\ UNCHANGED <<user, deducted, exception>>
           ELSE IF ok
           THEN /\ user' = [user EXCEPT !.credits = user.credits - CreditsNeeded]
                /\ deducted' = deducted + CreditsNeeded
                /\ pc' = "deducted"
                /\ UNCHANGED exception
           ELSE /\ exception' = "DatabaseError"
                /\ pc' = "raised"
                /\ UNCHANGED <<user, deducted>>
        /\ UNCHANGED <<cacheVars, jobs, project, call, render_transparent, total_frames,
                       frame_num, rendered, written, temp_dir, output_path, export,
                       progress_calls, encoder_calls>>

\* "Cleanup temp file": os.remove(output_path), which may raise OSError;
\* else render_export returns its success.
RemoveOutput ==
    \E ok \in BOOLEAN :
        /\ pc = "deducted"
        /\ IF ok
           THEN /\ pc' = "returned"
                /\ UNCHANGED exception
           ELSE /\ exception' = "OSError"
                /\ pc' = "raised"
        /\ UNCHANGED <<cacheVars, jobs, project, call, render_transparent, total_frames,
                       frame_num, rendered, written, temp_dir, output_path, export, user,
                       progress_calls, encoder_calls, deducted>>

---------------------------------------------------------------------------
(* Keyframe interpolation: one non-looping animation, every sorted         *)
(* keyframe list within the bounds, every easing kind.                     *)

JointMaps ==
    {[joint_name \in D |-> IF joint_name = "spine" THEN R(v) ELSE R(60)] :
        D \in SUBSET {"spine", "arm"}, v \in {0, 90}}

Keyframes == [time : {R(k) : k \in 0..MaxKeyframeTime}, joints : JointMaps]

SortedKeyframeLists ==
    {kfs \in SeqsOf(Keyframes, 1, MaxKeyframes) :
        \A i \in 1..(Len(kfs) - 1) : RLe(kfs[i].time, kfs[i + 1].time)}

InitMotion ==
    /\ \E kfs \in SortedKeyframeLists, easing \in EasingKinds, start \in {0, 1} :
          project = ProjectOf(1, R(1),
                        <<SceneOf(0, R(1),
                            <<SceneCharacterOf(CharacterOf(ImageOf(0, Some(255))), 0, R(0),
                                  None, <<AnimationOf(R(start), R(MaxKeyframeTime + 1),
                                                      R(1), FALSE, easing, kfs)>>)>>,
                            <<>>)>>)
    /\ call = NoCall
    /\ Idle

NextMotion == ApplyAnimations

SpecMotion == InitMotion /\ [][NextMotion]_vars

---------------------------------------------------------------------------
(* The active animation: a character with up to MaxAnimations animations   *)
(* of positive duration, in the order animations.all() returns them (Meta  *)
(* ordering: start_time).  The animation at position i moves the spine     *)
(* from 0 to 30 * i degrees over two units.                                *)

SpeedMultipliers == {Rat(1, 2), R(2)}

KeyframesOfPosition(i) ==
    <<[time |-> R(0), joints |-> [joint_name \in {"spine"} |-> R(0)]],
      [time |-> R(2), joints |-> [joint_name \in {"spine"} |-> R(30 * i)]]>>

Timings ==
    [start_time : {R(k) : k \in 0..MaxAnimStart},
     duration : {R(k) : k \in 1..MaxAnimDuration},
     speed_multiplier : SpeedMultipliers,
     loop : BOOLEAN]

TimingLists ==
    {l \in SeqsOf(Timings, 0, MaxAnimations) :
        \A i \in 1..(Len(l) - 1) : RLe(l[i].start_time, l[i + 1].start_time)}

InitAnim ==
    /\ \E l \in TimingLists :
          project = ProjectOf(1, R(1),
                        <<SceneOf(0, R(1),
                            <<SceneCharacterOf(
                                  CharacterOf(ImageOf(0, Some(255))), 0, R(0), None,
                                  [i \in 1..Len(l) |->
                                      AnimationOf(l[i].start_time, l[i].duration,
                                                  l[i].speed_multiplier, l[i].loop,
                                                  "linear", KeyframesOfPosition(i))])>>,
                            <<>>)>>)
    /\ call = NoCall
    /\ Idle

NextAnim == ApplyAnimations

SpecAnim == InitAnim /\ [][NextAnim]_vars

---------------------------------------------------------------------------
(* A scene: up to MaxCharacters characters, all on the one pixel of the    *)
(* canvas, the character stored k-th of colour 10 * k, with an alpha       *)
(* channel of 255 when k is odd and without alpha channel when k is even;  *)
(* with or without a background image; one text overlay shown from time 1  *)
(* for two units.  enter_time <= exit_time when exit_time is set.          *)

ZIndexes == {0, 1}

Placements ==
    {pl \in [z_index : ZIndexes,
             enter_time : {R(k) : k \in 0..MaxEnterTime},
             exit_time : {None} \cup {Some(R(k)) : k \in 0..MaxExitTime}] :
        IsNone(pl.exit_time) \/ RLe(pl.enter_time, pl.exit_time[1])}

CharacterColour(k) == 10 * k

BackgroundColourOfImage == 7

TextColour == 99

TheOverlay ==
    [position_x |-> R(0), position_y |-> R(0), color |-> TextColour,
     animation |-> "none", start_time |-> R(1), duration |-> R(2)]

InitScene ==
    /\ \E pls \in SeqsOf(Placements, 0, MaxCharacters), has_background \in BOOLEAN :
          project = ProjectOf(1, R(1),
              <<[SceneOf(0, R(MaxSceneTime + 1),
                     [k \in 1..Len(pls) |->
                         SceneCharacterOf(
                             CharacterOf(ImageOf(CharacterColour(k),
                                                 IF k % 2 = 1 THEN Some(255) ELSE None)),
                             pls[k].z_index, pls[k].enter_time, pls[k].exit_time, <<>>)],
                     <<TheOverlay>>)
                 EXCEPT !.background =
                     IF has_background
                     THEN Some([image |-> Some(ImageOf(BackgroundColourOfImage, None))])
                     ELSE None]>>)
    /\ call = NoCall
    /\ Idle

NextScene == RenderSceneAtTime

SpecScene == InitScene /\ [][NextScene]_vars

---------------------------------------------------------------------------
(* An export: a project of up to MaxScenes scenes of positive duration,    *)
(* the scene stored k-th showing one opaque character of colour 10 * k     *)
(* from its start on; a frame rate up to MaxFps; a project duration on the *)
(* half-second grid (duration_seconds is a field of its own, not the sum   *)
(* of the scene durations).                                                *)

SceneRows ==
    [order : {0, 1}, duration : {R(k) : k \in 1..MaxSceneDuration}]

Init ==
    /\ \E rows \in SeqsOf(SceneRows, 0, MaxScenes), fps \in 1..MaxFps,
          half_seconds \in 0..MaxProjectHalfSeconds :
          project = ProjectOf(fps, Rat(half_seconds, 2),
              [k \in 1..Len(rows) |->
                  SceneOf(rows[k].order, rows[k].duration,
                      <<SceneCharacterOf(
                            CharacterOf(ImageOf(CharacterColour(k), Some(255))),
                            0, R(0), None, <<>>)>>,
                      <<>>)])
    /\ call = NoCall
    /\ Idle

Next ==
    \/ StartExport
    \/ RenderStart
    \/ RenderFrame
    \/ WriteFrame
    \/ Encode
    \/ FailExport
    \/ CompleteExport
    \/ DeductCredits
    \/ RemoveOutput

Spec == Init /\ [][Next]_vars

---------------------------------------------------------------------------
(* Compositing: a canvas of up to MaxCanvasSide x MaxCanvasSide pixels,    *)
(* white or transparent, and a layer of up to MaxLayerSide x MaxLayerSide  *)
(* pixels with or without an alpha channel, put at every position within   *)
(* MaxOffset of the canvas's corner.                                       *)

\* The length of the numpy slice a[lo:hi] of an axis of n entries.
SliceIndex(i, n) == IF i < 0 THEN Max(0, i + n) ELSE Min(i, n)
SliceLen(lo, hi, n) == Max(0, SliceIndex(hi, n) - SliceIndex(lo, n))

\* Whether the assignments of _alpha_composite raise: numpy raises
\* ValueError when the overlay's slice [oy1:oy2, ox1:ox2] has not the shape
\* of the canvas's region [y1:y2, x1:x2].
CompositeRaises(canvas, overlay, x, y) ==
    LET x1 == Max(0, x)
        y1 == Max(0, y)
        x2 == Min(canvas.w, x + overlay.w)
        y2 == Min(canvas.h, y + overlay.h)
        ox1 == x1 - x
        oy1 == y1 - y
        ox2 == ox1 + (x2 - x1)
        oy2 == oy1 + (y2 - y1)
    IN  IF x1 >= x2 \/ y1 >= y2 THEN FALSE
        ELSE \/ SliceLen(ox1, ox2, overlay.w) # x2 - x1
             \/ SliceLen(oy1, oy2, overlay.h) # y2 - y1

Canvases ==
    {NewCanvas(w, h, transparent, 255) :
        w \in 1..MaxCanvasSide, h \in 1..MaxCanvasSide, transparent \in BOOLEAN}

LayerColour == 10

Layers ==
    {[ImageOf(LayerColour, alpha) EXCEPT !.w = w, !.h = h] :
        w \in 1..MaxLayerSide, h \in 1..MaxLayerSide,
        alpha \in {None, Some(0), Some(128), Some(255)}}

\* A call of _alpha_composite(canvas, overlay, x, y).
AlphaComposite ==
    \E canvas \in Canvases, overlay \in Layers,
       x \in (-MaxOffset)..MaxOffset, y \in (-MaxOffset)..MaxOffset :
        /\ pc = "idle"
        /\ call = NoCall
        /\ call' = [op |-> "_alpha_composite", canvas |-> canvas, overlay |-> overlay,
                    x |-> x, y |-> y,
                    raised |-> CompositeRaises(canvas, overlay, x, y),
                    result |-> _alpha_composite(canvas, overlay, x, y)]
        /\ UNCHANGED <<cacheVars, jobs, project, renderVars, taskVars>>

InitComposite ==
    /\ project = ProjectOf(1, R(1), <<>>)
    /\ call = NoCall
    /\ Idle

NextComposite == AlphaComposite

SpecComposite == InitComposite /\ [][NextComposite]_vars

---------------------------------------------------------------------------
(* Rendering a time twice: a project of up to MaxScenes scenes of duration *)
(* 1, each with two opaque characters on the one pixel, the character      *)
(* stored j-th in the scene stored k-th of colour 10 * k + j; the scenes'  *)
(* order values and the characters' z_index values may be equal.           *)

TieRows == [order : {0, 1}]

InitTies ==
    /\ \E rows \in SeqsOf(TieRows, 0, MaxScenes), z_second \in {0, 1} :
          project = ProjectOf(1, R(1),
              [k \in 1..Len(rows) |->
                  SceneOf(rows[k].order, R(1),
                      [j \in 1..2 |->
                          SceneCharacterOf(
                              CharacterOf(ImageOf(CharacterColour(k) + j, Some(255))),
                              IF j = 1 THEN 0 ELSE z_second, R(0), None, <<>>)],
                      <<>>)])
    /\ call = NoCall
    /\ Idle

\* Two calls of _render_frame_at_time(time, False) on the same project, the
\* database answering each call's order_by queries in one of the orders
\* they allow.
RenderFrameTwice ==
    \E time \in {R(k) : k \in 0..MaxScenes},
       order1 \in SceneOrders(project), order2 \in SceneOrders(project),
       z_orders1 \in ZOrders(project), z_orders2 \in ZOrders(project) :
        /\ pc = "idle"
        /\ call = NoCall
        /\ call' = [op |-> "_render_frame_at_time twice", time |-> time,
                    first |-> _render_frame_at_time(project, order1, z_orders1, time,
                                                    FALSE),
                    second |-> _render_frame_at_time(project, order2, z_orders2, time,
                                                     FALSE)]
        /\ UNCHANGED <<cacheVars, jobs, project, renderVars, taskVars>>

NextTies == RenderFrameTwice

SpecTies == InitTies /\ [][NextTies]_vars

---------------------------------------------------------------------------
(* The preview: a project of up to MaxScenes scenes of positive duration,  *)
(* the scene stored k-th showing one opaque character of colour 10 * k     *)
(* from scene time 1 on, and render_frame called for a scene of it with a  *)
(* frame number up to MaxFrameNumber that lies within the scene.           *)

\* The time of a frame number taken as the frame number itself.
PreviewTimeInFrames(frame_number, fps) == R(frame_number)

\* time = frame_number / self.fps
PreviewTime(frame_number, fps) == Rat(frame_number, fps)

InitPreview ==
    /\ \E rows \in SeqsOf(SceneRows, 0, MaxScenes), fps \in 1..MaxFps :
          project = ProjectOf(fps, R(1),
              [k \in 1..Len(rows) |->
                  SceneOf(rows[k].order, rows[k].duration,
                      <<SceneCharacterOf(
                            CharacterOf(ImageOf(CharacterColour(k), Some(255))),
                            0, R(1), None, <<>>)>>,
                      <<>>)])
    /\ call = NoCall
    /\ Idle

\* render_frame(scene, frame_number): the frame of _render_scene_at_time at
\* frame_number / fps, never transparent, written as a PNG file.  The scene
\* is the one at some position of an order the scenes may come in, which is
\* kept with the call to tell where the scene starts in the project.
RenderPreview ==
    \E order \in SceneOrders(project), z_orders \in ZOrders(project),
       frame_number \in 0..MaxFrameNumber :
        \E position \in 1..Len(order) :
            LET scene == project.scenes[order[position]]
                time == PreviewTime(frame_number, project.fps)
            IN  /\ pc = "idle"
                /\ call = NoCall
                /\ RLt(time, scene.duration)
                /\ call' = [op |-> "render_frame", scene |-> order[position],
                            position |-> position, order |-> order,
                            z_orders |-> z_orders, frame_number |-> frame_number,
                            result |-> _render_scene_at_time(
                                          scene, z_orders[order[position]], time, FALSE,
                                          project.width, project.height)]
                /\ UNCHANGED <<cacheVars, jobs, project, renderVars, taskVars>>

NextPreview == RenderPreview

SpecPreview == InitPreview /\ [][NextPreview]_vars

---------------------------------------------------------------------------
(* Images that do not decode: a scene of up to MaxCharacters characters,   *)
(* always visible, the character stored k-th of z_index k and colour       *)
(* 10 * k, each with an image that decodes or not; no background, or one   *)
(* whose image decodes or not; the text overlay; the camera at rest or     *)
(* zoomed.                                                                 *)

\* A Character whose image file cv2.imread cannot decode.
UndecodableCharacter == [image |-> None, rig_data |-> [has_joints |-> TRUE]]

Backgrounds ==
    {None, Some([image |-> None]),
     Some([image |-> Some(ImageOf(BackgroundColourOfImage, None))])}

InitDecode ==
    /\ \E decodes \in SeqsOf(BOOLEAN, 0, MaxCharacters), background \in Backgrounds,
          camera_zoom \in {R(1), R(2)} :
          project = ProjectOf(1, R(1),
              <<[SceneOf(0, R(MaxSceneTime + 1),
                     [k \in 1..Len(decodes) |->
                         SceneCharacterOf(
                             IF decodes[k]
                             THEN CharacterOf(ImageOf(CharacterColour(k), Some(255)))
                             ELSE UndecodableCharacter,
                             k, R(0), None, <<>>)],
                     <<TheOverlay>>)
                 EXCEPT !.background = background, !.camera_zoom = camera_zoom]>>)
    /\ call = NoCall
    /\ Idle

NextDecode == RenderSceneAtTime

SpecDecode == InitDecode /\ [][NextDecode]_vars

---------------------------------------------------------------------------
(* Motion data: one non-looping animation from scene time 0 on, its        *)
(* keyframes inline or in the motion_data of its MotionPreset; the list    *)
(* sorted, or empty; or a preset whose motion_data has no keyframes.       *)

KeyframeListsOrEmpty == SortedKeyframeLists \cup {<<>>}

\* A MotionPreset with the given motion_data['keyframes'] (None: no such key).
MotionPresetOf(keyframes) == [motion_data |-> [keyframes |-> keyframes]]

MotionSources ==
    {[motion_preset |-> None, keyframes |-> kfs] : kfs \in KeyframeListsOrEmpty}
    \cup {[motion_preset |-> Some(MotionPresetOf(Some(kfs))), keyframes |-> <<>>] :
             kfs \in KeyframeListsOrEmpty}
    \cup {[motion_preset |-> Some(MotionPresetOf(None)), keyframes |-> <<>>]}

InitPreset ==
    /\ \E source \in MotionSources :
          project = ProjectOf(1, R(1),
                        <<SceneOf(0, R(1),
                            <<SceneCharacterOf(CharacterOf(ImageOf(0, Some(255))), 0, R(0),
                                  None,
                                  <<[AnimationOf(R(0), R(MaxKeyframeTime + 1), R(1),
                                                 FALSE, "linear", source.keyframes)
                                     EXCEPT !.motion_preset = source.motion_preset]>>)>>,
                            <<>>)>>)
    /\ call = NoCall
    /\ Idle

NextPreset == ApplyAnimations

SpecPreset == InitPreset /\ [][NextPreset]_vars

---------------------------------------------------------------------------
(* The output size: projects of the widths and heights of ProjectSizes,    *)
(* exported at each of the four presets and at a quality that is none of   *)
(* them.                                                                   *)

\* QUALITY_SETTINGS, width and height
QUALITY_SETTINGS ==
    [low |-> [width |-> 854, height |-> 480],
     medium |-> [width |-> 1280, height |-> 720],
     high |-> [width |-> 1920, height |-> 1080],
     ultra |-> [width |-> 3840, height |-> 2160]]

Qualities == {"low", "medium", "high", "ultra", "other"}

\* self.QUALITY_SETTINGS.get(quality, self.QUALITY_SETTINGS['high'])
QualitySettings(quality) ==
    IF quality \in DOMAIN QUALITY_SETTINGS THEN QUALITY_SETTINGS[quality]
    ELSE QUALITY_SETTINGS["high"]

\* The preset's width and height taken as they are.
PresetSize(quality, width, height) ==
    [width |-> QualitySettings(quality).width,
     height |-> QualitySettings(quality).height]

\* out_width = min(settings['width'], self.width), and out_height alike: the
\* size every frame is resized to before it is written.
OutSize(quality, width, height) ==
    [width |-> Min(QualitySettings(quality).width, width),
     height |-> Min(QualitySettings(quality).height, height)]

ProjectSizes == {1, 480, 854, 1080, 1920, 3840, 4096}

InitQuality ==
    /\ \E width \in ProjectSizes, height \in ProjectSizes :
          project = [ProjectOf(1, R(1), <<>>) EXCEPT !.width = width, !.height = height]
    /\ call = NoCall
    /\ Idle

\* render(quality = ...) up to the output size it computes.
RenderSize ==
    \E quality \in Qualities :
        /\ pc = "idle"
        /\ call = NoCall
        /\ call' = [op |-> "render", quality |-> quality,
                    out |-> OutSize(quality, project.width, project.height)]
        /\ UNCHANGED <<cacheVars, jobs, project, renderVars, taskVars>>

NextQuality == RenderSize

SpecQuality == InitQuality /\ [][NextQuality]_vars

---------------------------------------------------------------------------
(* The export task: credits, the encoder's outcome and the progress (SpecExport) *)

\* The users: with or without an active plan, holding some credits.
Users == [credits : 0..MaxCredits, is_plan_active : BOOLEAN]

\* The export of any quality of a project of one scene with one character,
\* for any user.
InitExport ==
    /\ \E fps \in 1..MaxFps, half_seconds \in 0..MaxProjectHalfSeconds :
          project = ProjectOf(fps, Rat(half_seconds, 2),
              <<SceneOf(0, R(1),
                    <<SceneCharacterOf(
                          CharacterOf(ImageOf(CharacterColour(1), Some(255))),
                          0, R(0), None, <<>>)>>,
                    <<>>)>>)
    /\ call = NoCall
    /\ NotRendering
    /\ EmptyCache
    /\ NoJobs
    /\ \E quality \in Qualities, the_user \in Users : Queued(quality, the_user)

SpecExport == InitExport /\ [][Next]_vars

---------------------------------------------------------------------------
(* The easing curves on any input (SpecEase) *)

\* The inputs of _ease: the quarters from below 0 to above 1.
EaseInputs == {Rat(k, 4) : k \in (0 - MaxEaseQuarters)..MaxEaseQuarters}

\* One call of _ease(t, easing).
Ease ==
    \E t \in EaseInputs, easing \in EasingKinds :
        /\ pc = "idle"
        /\ call = NoCall
        /\ call' = [op |-> "_ease", t |-> t, easing |-> easing,
                    result |-> _ease(t, easing)]
        /\ UNCHANGED <<cacheVars, jobs, project, renderVars, taskVars>>

InitEase ==
    /\ project = ProjectOf(1, R(0), <<>>)
    /\ call = NoCall
    /\ Idle

NextEase == Ease

SpecEase == InitEase /\ [][NextEase]_vars

---------------------------------------------------------------------------
(* The image cache: the buffers of one renderer over several frames        *)
(* (SpecCache).  A buffer is an array [w, h, channels, px] as a canvas is; *)
(* the renderer's heap gives each buffer its pixel data, so that a write   *)
(* in place shows in every name of the buffer.                             *)

\* The path of an image file; the files here are told apart by their images.
PathOf(file) == file.image

\* The buffers the cache holds, and the buffers of the frame being rendered.
Cached(n) == <<"cached", n>>
Local(n) == <<"local", n>>

\* A dict, or the heap, with one more entry.
With(f, key, value) ==
    [k \in (DOMAIN f) \cup {key} |-> IF k = key THEN value ELSE f[k]]

\* The array cv2.imread decodes for an image.
ArrayOf(image) ==
    [w |-> image.w, h |-> image.h,
     channels |-> IF IsNone(image.alpha) THEN 3 ELSE 4,
     px |-> [p \in Pixels(image.w, image.h) |->
                [c |-> image.colour,
                 a |-> IF IsNone(image.alpha) THEN 255 ELSE image.alpha[1]]]]

\* The image an array of one colour holds.
ImageFrom(array) ==
    [w |-> array.w, h |-> array.h, colour |-> array.px[<<0, 0>>].c,
     alpha |-> IF array.channels = 4 THEN Some(array.px[<<0, 0>>].a) ELSE None,
     deform |-> R(0)]

\* A new buffer of the frame holding data: Local(st.locals + 1).
Alloc(st, data) ==
    [st EXCEPT !.heap = With(st.heap, Local(st.locals + 1), data),
               !.locals = st.locals + 1]

\* self.image_cache[path] = image.copy(): a new buffer, held by the cache.
CacheCopy(st, path, data) ==
    [st EXCEPT !.heap = With(st.heap, Cached(Cardinality(DOMAIN st.cache) + 1), data),
               !.cache = With(st.cache, path, Cached(Cardinality(DOMAIN st.cache) + 1))]

\* _load_image(path) on the buffers: a hit returns a copy of the cached
\* buffer; a miss decodes the file and, if it decodes, puts a copy in the
\* cache and returns the decoded buffer.  st.loaded is the buffer returned.
LoadImage(st, file) ==
    IF PathOf(file) \in DOMAIN st.cache
    THEN [Alloc(st, st.heap[st.cache[PathOf(file)]])
             EXCEPT !.loaded = Some(Local(st.locals + 1)), !.hits = st.hits + 1]
    ELSE IF IsNone(_load_image(file)) THEN [st EXCEPT !.loaded = None]
    ELSE [CacheCopy(Alloc(st, ArrayOf(_load_image(file)[1])), PathOf(file),
                    ArrayOf(_load_image(file)[1]))
             EXCEPT !.loaded = Some(Local(st.locals + 1))]

\* A renderer that takes the cached background, when there is one, for its
\* canvas.
CanvasFromCache(st, scene, transparent, width, height) ==
    IF ~IsNone(scene.background) /\ PathOf(scene.background[1]) \in DOMAIN st.cache
    THEN [st EXCEPT !.canvas = st.cache[PathOf(scene.background[1])]]
    ELSE [Alloc(st, NewCanvas(width, height, transparent, scene.background_color))
             EXCEPT !.canvas = Local(st.locals + 1)]

\* "Create canvas": np.zeros or np.full allocate it.
CanvasBuffer(st, scene, transparent, width, height) ==
    [Alloc(st, NewCanvas(width, height, transparent, scene.background_color))
        EXCEPT !.canvas = Local(st.locals + 1)]

\* _alpha_composite at the end of _composite_image writes the canvas buffer
\* in place (canvas[y1:y2, x1:x2] = ...) and reads the image; the buffers
\* cv2.resize and cv2.warpAffine allocate for the image on the way are the
\* frame's own.
CompositeInPlace(st, image, x, y, scale, rotation) ==
    [st EXCEPT !.heap[st.canvas] =
        _composite_image(st.heap[st.canvas], image, x, y, scale, rotation)]

\* "Draw background image if present", st.loaded being what _load_image
\* returned.
BackgroundInPlace(st) ==
    IF IsNone(st.loaded) THEN st
    ELSE CompositeInPlace(st, ImageFrom(st.heap[st.loaded[1]]), R(0), R(0), R(1), R(0))

\* The body of the loop over the characters for one that is not skipped,
\* st.loaded being what _load_image returned and animated what
\* _apply_animations returned: the image it was given or one in a new buffer.
CharacterInPlace(st, scene_char, animated) ==
    IF animated.raised THEN [st EXCEPT !.raised = TRUE]
    ELSE CompositeInPlace(st, animated.image, scene_char.position_x,
                          scene_char.position_y, scene_char.scale, scene_char.rotation)

\* The character whose image is in st.loaded, if there is one.
LoadedCharacterInPlace(st, scene_char, time) ==
    IF IsNone(st.loaded) THEN st
    ELSE CharacterInPlace(st, scene_char,
             _apply_animations(ImageFrom(st.heap[st.loaded[1]]), scene_char,
                               scene_char.character.rig_data, time))

RECURSIVE CharactersInPlaceFrom(_, _, _, _, _)
CharactersInPlaceFrom(st, scene, z_order, time, i) ==
    IF i > Len(z_order) \/ st.raised THEN st
    ELSE IF Skipped(scene.scene_characters[z_order[i]], time)
         THEN CharactersInPlaceFrom(st, scene, z_order, time, i + 1)
         ELSE CharactersInPlaceFrom(
                  LoadedCharacterInPlace(
                      LoadImage(st, scene.scene_characters[z_order[i]].character),
                      scene.scene_characters[z_order[i]], time),
                  scene, z_order, time, i + 1)

\* The canvas is from here on the new buffer holding data.
NewCanvasBuffer(st, data) == [Alloc(st, data) EXCEPT !.canvas = Local(st.locals + 1)]

\* The loop over the text overlays: _render_text_overlay returns a new array.
RECURSIVE OverlaysInNewBufferFrom(_, _, _, _, _, _)
OverlaysInNewBufferFrom(st, scene, time, width, height, i) ==
    IF i > Len(scene.text_overlays) \/ st.raised THEN st
    ELSE IF /\ RLe(scene.text_overlays[i].start_time, time)
            /\ RLt(time, RAdd(scene.text_overlays[i].start_time,
                              scene.text_overlays[i].duration))
         THEN OverlaysInNewBufferFrom(
                  NewCanvasBuffer(st,
                      _render_text_overlay(st.heap[st.canvas], scene.text_overlays[i],
                          RSub(time, scene.text_overlays[i].start_time), width, height)),
                  scene, time, width, height, i + 1)
         ELSE OverlaysInNewBufferFrom(st, scene, time, width, height, i + 1)

\* "Apply camera": cv2.warpAffine returns a new array.
CameraInNewBuffer(st, scene) ==
    IF st.raised THEN st
    ELSE IF \/ scene.camera_zoom # R(1)
            \/ ~RIsZero(scene.camera_x)
            \/ ~RIsZero(scene.camera_y)
         THEN NewCanvasBuffer(st, _apply_camera(st.heap[st.canvas], scene))
         ELSE st

\* The background, st being the renderer with its canvas.
BackgroundOnCanvas(st, scene) ==
    IF IsNone(scene.background) THEN st
    ELSE BackgroundInPlace(LoadImage(st, scene.background[1]))

\* The renderer entering _render_scene_at_time: no buffer of the frame yet.
Entering ==
    [heap |-> heap, cache |-> image_cache, locals |-> 0, canvas |-> Local(0),
     loaded |-> None, hits |-> 0, raised |-> FALSE]

\* _render_scene_at_time on the buffers.
RenderedInBuffers(scene, z_order, time, transparent, width, height) ==
    CameraInNewBuffer(
        OverlaysInNewBufferFrom(
            CharactersInPlaceFrom(
                BackgroundOnCanvas(
                    CanvasBuffer(Entering, scene, transparent, width, height), scene),
                scene, z_order, time, 1),
            scene, time, width, height, 1),
        scene)

\* What the renderer keeps of st when the frame is dropped: the cache and
\* the buffers it holds.
KeptHeap(st) == [id \in {st.cache[path] : path \in DOMAIN st.cache} |-> st.heap[id]]

\* The call record of a frame rendered in buffers.
CachedCall(st, time, transparent, z_order) ==
    [op |-> "_render_scene_at_time in buffers", time |-> time,
     transparent |-> transparent, z_order |-> z_order, hits |-> st.hits,
     raised |-> st.raised, result |-> st.heap[st.canvas]]

\* The renderer after the frame st.
Rendered(st, time, transparent, z_order) ==
    /\ call' = CachedCall(st, time, transparent, z_order)
    /\ image_cache' = st.cache
    /\ heap' = KeptHeap(st)

\* One more call of _render_scene_at_time on the same renderer, as
\* render()'s loop makes them.
RenderSceneInBuffers ==
    \E time \in {R(k) : k \in 0..MaxSceneTime}, transparent \in BOOLEAN,
       z_order \in CharacterOrders(project.scenes[1]) :
        /\ pc = "idle"
        /\ Rendered(RenderedInBuffers(project.scenes[1], z_order, time, transparent,
                                      project.width, project.height),
                    time, transparent, z_order)
        /\ UNCHANGED <<jobs, project, renderVars, taskVars>>

\* A scene of up to MaxCharacters characters, the k-th of its own image and
\* entering at 0 or at 1, with or without a background image, with the text
\* overlay.
InitCache ==
    /\ \E enters \in SeqsOf({0, 1}, 0, MaxCharacters), has_background \in BOOLEAN :
          project = ProjectOf(1, R(1),
              <<[SceneOf(0, R(MaxSceneTime + 1),
                     [k \in 1..Len(enters) |->
                         SceneCharacterOf(
                             CharacterOf(ImageOf(CharacterColour(k), Some(255))),
                             k, R(enters[k]), None, <<>>)],
                     <<TheOverlay>>)
                 EXCEPT !.background =
                     IF has_background
                     THEN Some([image |-> Some(ImageOf(BackgroundColourOfImage, None))])
                     ELSE None]>>)
    /\ call = NoCall
    /\ Idle

NextCache == RenderSceneInBuffers

SpecCache == InitCache /\ [][NextCache]_vars

---------------------------------------------------------------------------
(* Keyframes in any order: one non-looping linear animation from scene     *)
(* time 0 on, every list of spine keyframes within the bounds, sorted or   *)
(* not (SpecUnsorted).                                                     *)

SpineKeyframes ==
    [time : {R(k) : k \in 0..MaxKeyframeTime},
     joints : {[joint_name \in {"spine"} |-> R(v)] : v \in {0, 90}}]

\* sorted(keyframes, key=time) one keyframe at a time: kf goes after the
\* keyframes of the sorted list that are not later than it.
InsertByTime(sorted, kf) ==
    LET k == Cardinality({i \in 1..Len(sorted) : RLe(sorted[i].time, kf.time)})
    IN  SubSeq(sorted, 1, k) \o <<kf>> \o SubSeq(sorted, k + 1, Len(sorted))

\* The keyframes sorted ascending by time, keyframes of one time keeping
\* their order.
RECURSIVE SortedByTimeFrom(_, _, _)
SortedByTimeFrom(keyframes, i, sorted) ==
    IF i > Len(keyframes) THEN sorted
    ELSE SortedByTimeFrom(keyframes, i + 1, InsertByTime(sorted, keyframes[i]))

SortedByTime(keyframes) == SortedByTimeFrom(keyframes, 1, <<>>)

InitUnsorted ==
    /\ \E kfs \in SeqsOf(SpineKeyframes, 1, MaxKeyframes) :
          project = ProjectOf(1, R(1),
                        <<SceneOf(0, R(1),
                            <<SceneCharacterOf(CharacterOf(ImageOf(0, Some(255))), 0, R(0),
                                  None, <<AnimationOf(R(0), R(MaxKeyframeTime + 1),
                                                      R(1), FALSE, "linear", kfs)>>)>>,
                            <<>>)>>)
    /\ call = NoCall
    /\ Idle

NextUnsorted == ApplyAnimations

SpecUnsorted == InitUnsorted /\ [][NextUnsorted]_vars

---------------------------------------------------------------------------
(* Text overlays: a scene of 2 x 2 pixels with one overlay and no          *)
(* character, rendered at the twentieths of a second (SpecText).           *)

\* Scene-local times on the grid of 1/20.
TextTimes == {Rat(k, 20) : k \in 0..(20 * MaxSceneTime)}

TextOverlays ==
    [position_x : {R(0), R(50)}, position_y : {R(0), R(90)}, color : {TextColour},
     animation : {"fade", "none", "typewriter"},
     start_time : {R(0), R(1)},
     duration : {Rat(1, 2), R(1), R(2)}]

InitText ==
    /\ \E overlay \in TextOverlays :
          project = [ProjectOf(1, R(1), <<SceneOf(0, R(MaxSceneTime + 1), <<>>, <<overlay>>)>>)
                        EXCEPT !.width = 2, !.height = 2]
    /\ call = NoCall
    /\ Idle

\* A call of _render_scene_at_time at a time of the fine grid.
RenderSceneAtTextTime ==
    \E time \in TextTimes, transparent \in BOOLEAN :
        /\ pc = "idle"
        /\ call = NoCall
        /\ call' = [op |-> "_render_scene_at_time", time |-> time,
                    transparent |-> transparent, z_order |-> <<>>,
                    result |-> _render_scene_at_time(project.scenes[1], <<>>, time,
                                                     transparent, project.width,
                                                     project.height)]
        /\ UNCHANGED <<cacheVars, jobs, project, renderVars, taskVars>>

NextText == RenderSceneAtTextTime

SpecText == InitText /\ [][NextText]_vars

---------------------------------------------------------------------------
(* The camera: a scene of 2 x 2 pixels with a background colour, white or  *)
(* not, with or without a character, with the text overlay, and a camera   *)
(* zooming out, at rest or zooming in, panned or not (SpecCamera).         *)

BackgroundColours == {255, 50}

CameraZooms == {Rat(1, 2), R(1), R(2)}

CameraPans == {R(0), R(1)}

InitCamera ==
    /\ \E background_color \in BackgroundColours, camera_zoom \in CameraZooms,
          camera_x \in CameraPans, camera_y \in CameraPans, has_character \in BOOLEAN :
          project = [ProjectOf(1, R(1),
              <<[SceneOf(0, R(MaxSceneTime + 1),
                     IF has_character
                     THEN <<SceneCharacterOf(
                                CharacterOf(ImageOf(CharacterColour(1), Some(255))),
                                0, R(0), None, <<>>)>>
                     ELSE <<>>,
                     <<TheOverlay>>)
                 EXCEPT !.background_color = background_color,
                        !.camera_zoom = camera_zoom,
                        !.camera_x = camera_x, !.camera_y = camera_y]>>)
              EXCEPT !.width = 2, !.height = 2]
    /\ call = NoCall
    /\ Idle

NextCamera == RenderSceneAtTime

SpecCamera == InitCamera /\ [][NextCamera]_vars

---------------------------------------------------------------------------
(* The background image: a scene with a background colour and a background *)
(* image, no character and no overlay, the image and the canvas of any     *)
(* size within the bounds (SpecBackground).                                *)

\* The background images: of one colour, without alpha channel, opaque or
\* half transparent.
BackgroundImages ==
    {[ImageOf(BackgroundColourOfImage, alpha) EXCEPT !.w = w, !.h = h] :
        alpha \in {None, Some(255), Some(128)},
        w \in 1..MaxLayerSide, h \in 1..MaxLayerSide}

InitBackground ==
    /\ \E image \in BackgroundImages, background_color \in BackgroundColours,
          width \in 1..MaxCanvasSide, height \in 1..MaxCanvasSide :
          project = [ProjectOf(1, R(1),
              <<[SceneOf(0, R(MaxSceneTime + 1), <<>>, <<>>)
                 EXCEPT !.background_color = background_color,
                        !.background = Some([image |-> Some(image)])]>>)
              EXCEPT !.width = width, !.height = height]
    /\ call = NoCall
    /\ Idle

NextBackground == RenderSceneAtTime

SpecBackground == InitBackground /\ [][NextBackground]_vars

---------------------------------------------------------------------------
(* Malformed timing: one animation whose duration and speed_multiplier are *)
(* any numbers the fields take, zero and negative included (SpecTiming).   *)

AnyTimings ==
    [start_time : {R(0), R(1)},
     duration : {R(-1), R(0), R(1), R(2)},
     speed_multiplier : {R(-1), R(0), R(1)},
     loop : BOOLEAN]

InitTiming ==
    /\ \E timing \in AnyTimings :
          project = ProjectOf(1, R(1),
                        <<SceneOf(0, R(1),
                            <<SceneCharacterOf(
                                  CharacterOf(ImageOf(0, Some(255))), 0, R(0), None,
                                  <<AnimationOf(timing.start_time, timing.duration,
                                                timing.speed_multiplier, timing.loop,
                                                "linear", KeyframesOfPosition(1))>>)>>,
                            <<>>)>>)
    /\ call = NoCall
    /\ Idle

NextTiming == ApplyAnimations

SpecTiming == InitTiming /\ [][NextTiming]_vars

---------------------------------------------------------------------------
(* Aborted exports: an export for a user with a plan, whose one character  *)
(* has no animation or a looping animation of duration 0 from scene time 0 *)
(* or 1 on, at which the frame raises (SpecAbort).                         *)

\* The animations of the character: none, or the one that raises from
\* `start` on.
RaisingFrom(start) ==
    IF start < 0 THEN <<>>
    ELSE <<AnimationOf(R(start), R(0), R(1), TRUE, "linear", KeyframesOfPosition(1))>>

InitAbort ==
    /\ \E fps \in 1..MaxFps, half_seconds \in 0..MaxProjectHalfSeconds,
          start \in {-1, 0, 1} :
          project = ProjectOf(fps, Rat(half_seconds, 2),
              <<SceneOf(0, R(MaxSceneDuration),
                    <<SceneCharacterOf(
                          CharacterOf(ImageOf(CharacterColour(1), Some(255))),
                          0, R(0), None, RaisingFrom(start))>>,
                    <<>>)>>)
    /\ call = NoCall
    /\ Idle

SpecAbort == InitAbort /\ [][Next]_vars

---------------------------------------------------------------------------
(* Jobs side by side: up to MaxJobs render_export jobs of exports of one   *)
(* user without plan, on workers of their own, each holding the user row   *)
(* it loaded; the steps of the jobs interleave (SpecJobs).  `user` is the  *)
(* row in the database.                                                    *)

\* A job of an export needing `needed` credits, not started.
QueuedJob(needed) ==
    [pc |-> "queued", status |-> "queued", credits_needed |-> needed, user |-> None]

\* The jobs with jobs[j] replaced.
JobsWith(j, job) == [jobs EXCEPT ![j] = job]

\* What the other variables do in a step of a job.
JobStep ==
    /\ pc = "idle"
    /\ UNCHANGED <<cacheVars, project, call, renderVars, export, progress_calls,
                   encoder_calls, exception>>

\* The job saves its export as processing.
JobStart ==
    \E j \in DOMAIN jobs :
        /\ jobs[j].pc = "queued"
        /\ jobs' = JobsWith(j, [jobs[j] EXCEPT !.pc = "processing",
                                               !.status = "processing"])
        /\ UNCHANGED <<user, deducted>>
        /\ JobStep

\* "Check user credits": user = export.project.user loads the row, and the
\* job goes on to render or fails for insufficient credits.
JobCheck ==
    \E j \in DOMAIN jobs :
        /\ jobs[j].pc = "processing"
        /\ jobs' = JobsWith(j,
               IF user.credits < jobs[j].credits_needed /\ ~user.is_plan_active
               THEN [jobs[j] EXCEPT !.pc = "returned", !.status = "failed",
                                    !.user = Some(user)]
               ELSE [jobs[j] EXCEPT !.pc = "rendering", !.user = Some(user)])
        /\ UNCHANGED <<user, deducted>>
        /\ JobStep

\* render() and the saving of the output: the export is saved as completed,
\* or as failed by the handler.
JobRender ==
    \E j \in DOMAIN jobs, ok \in BOOLEAN :
        /\ jobs[j].pc = "rendering"
        /\ jobs' = JobsWith(j,
               IF ok THEN [jobs[j] EXCEPT !.pc = "completed", !.status = "completed"]
               ELSE [jobs[j] EXCEPT !.pc = "returned", !.status = "failed"])
        /\ UNCHANGED <<user, deducted>>
        /\ JobStep

\* The row the job saves: the one it loaded, with its credits lowered.
RowSaved(job) == [job.user[1] EXCEPT !.credits = job.user[1].credits - job.credits_needed]

\* "Deduct credits": user.credits -= credits_needed on the row the job
\* loaded, and user.save() writes that row; deducted follows the credits of
\* the row in the database.
JobDeduct ==
    \E j \in DOMAIN jobs :
        /\ jobs[j].pc = "completed"
        /\ ~jobs[j].user[1].is_plan_active
        /\ user' = RowSaved(jobs[j])
        /\ deducted' = deducted + (user.credits - user'.credits)
        /\ jobs' = JobsWith(j, [jobs[j] EXCEPT !.pc = "returned",
                                               !.user = Some(user')])
        /\ JobStep

InitJobs ==
    /\ project = ProjectOf(1, R(1), <<>>)
    /\ call = NoCall
    /\ NotRendering
    /\ EmptyCache
    /\ \E credits \in 0..MaxCredits :
          Queued("high", [credits |-> credits, is_plan_active |-> FALSE])
    /\ \E needs \in SeqsOf(1..MaxNeeded, 1, MaxJobs) :
          jobs = [j \in 1..Len(needs) |-> QueuedJob(needs[j])]

NextJobs ==
    \/ JobStart
    \/ JobCheck
    \/ JobRender
    \/ JobDeduct

SpecJobs == InitJobs /\ [][NextJobs]_vars

---------------------------------------------------------------------------
(* Claims on the timeline and the export (Spec) *)

\* The last call of _render_frame_at_time, with the order the scenes came in.
FrameCalled == call.op = "_render_frame_at_time" /\ ~call.result.raised

\* The duration of the i-th scene of the walk.
WalkDuration(i) == project.scenes[call.order[i]].duration

\* The sum of the durations of the scenes before the i-th of the walk.
RECURSIVE Accumulated(_)
Accumulated(i) == IF i <= 1 THEN R(0) ELSE RAdd(Accumulated(i - 1), WalkDuration(i - 1))

TotalSceneDuration == Accumulated(Len(project.scenes) + 1)

\* The interval of the i-th scene of the walk contains the time.
Contains(i, time) ==
    /\ RLe(Accumulated(i), time)
    /\ RLt(time, RAdd(Accumulated(i), WalkDuration(i)))

\* C1: the scenes are walked in ascending `order`; for a time t with
\* 0 <= t < the total of the (positive) scene durations the frame renders
\* exactly one scene, the first scene i of the walk whose interval
\* [acc_i, acc_i + d_i) contains t, at scene-local time t - acc_i: the frame
\* has that scene's one character for its only layer and its colour for its
\* pixel.
C1_ActiveScene ==
    FrameCalled =>
        /\ \A i \in 1..(Len(call.order) - 1) :
              project.scenes[call.order[i]].order <= project.scenes[call.order[i + 1]].order
        /\ (RLe(R(0), call.time) /\ RLt(call.time, TotalSceneDuration)) =>
              \E i \in 1..Len(call.order) :
                  /\ Contains(i, call.time)
                  /\ \A j \in 1..(i - 1) : ~Contains(j, call.time)
                  /\ call.result.scene = call.order[i]
                  /\ call.result.scene_time = RSub(call.time, Accumulated(i))
                  /\ call.result.layers = <<Layer("character", 1)>>
                  /\ call.result.canvas.px[<<0, 0>>].c = CharacterColour(call.order[i])

\* C1 witness: two scenes stored against their `order`; the time falls in
\* the scene walked second, which is the one stored first, at a scene time
\* that is not the project time (Scenario C, within the bounds).
C1_Witness ==
    /\ FrameCalled
    /\ Len(project.scenes) = 2
    /\ project.scenes[1].order > project.scenes[2].order
    /\ call.order = <<2, 1>>
    /\ call.result.scene = 1
    /\ RLt(R(0), call.result.scene_time)
    /\ call.result.scene_time = RSub(call.time, project.scenes[2].duration)
    /\ call.result.canvas.px[<<0, 0>>].c = CharacterColour(1)

\* C2 as stated: for a project with at least one scene a time outside
\* [0, total scene duration) still resolves to a scene: the first scene at
\* local time 0 for t < 0, the last scene within its duration for
\* t >= total; no frame comes back with no scene rendered.
C2_Clamped ==
    (FrameCalled /\ Len(project.scenes) >= 1) =>
        /\ call.result.scene # 0
        /\ RLt(call.time, R(0)) =>
              (call.result.scene = call.order[1] /\ call.result.scene_time = R(0))
        /\ RLe(TotalSceneDuration, call.time) =>
              /\ call.result.scene = call.order[Len(call.order)]
              /\ RLe(call.result.scene_time, WalkDuration(Len(call.order)))

\* C2: a state where the code diverges: a frame of a project with a scene,
\* at a time at or after the total scene duration, with no scene rendered.
C2_BlankFrame ==
    /\ FrameCalled
    /\ Len(project.scenes) >= 1
    /\ RLe(TotalSceneDuration, call.time)
    /\ call.result.scene = 0
    /\ call.result.layers = <<>>

\* The frames are rendered in increasing index from 0, frame k at project
\* time k / fps, and frame k is written before frame k + 1 is rendered.
FramesInOrder ==
    /\ \A k \in 1..Len(rendered) :
          rendered[k] = [frame_num |-> k - 1, time |-> Rat(k - 1, project.fps)]
    /\ \A k \in 1..Len(written) : written[k] = k - 1
    /\ Len(written) <= Len(rendered)
    /\ Len(rendered) <= Len(written) + 1

\* C3 as stated: an export renders exactly round(D * fps) frames, in
\* increasing index, frame k at time k / fps and written before frame k + 1
\* is rendered.
C3_RoundedFrameCount ==
    /\ FramesInOrder
    /\ pc = "done" =>
          /\ Len(rendered) = RRound(RMul(project.duration_seconds, R(project.fps)))
          /\ Len(written) = Len(rendered)

\* C3 amended: an export renders exactly floor(D * fps) frames (D >= 0),
\* in increasing index, frame k at time k / fps and written before frame
\* k + 1 is rendered.
C3_FrameCount ==
    /\ FramesInOrder
    /\ pc = "done" =>
          /\ Len(rendered) = RFloor(RMul(project.duration_seconds, R(project.fps)))
          /\ Len(written) = Len(rendered)

\* C3 witness: a finished export of two frames whose D * fps is no integer.
C3_Witness ==
    /\ pc = "done"
    /\ RMul(project.duration_seconds, R(project.fps))[2] # 1
    /\ written = <<0, 1>>
    /\ Len(rendered) = 2

---------------------------------------------------------------------------
(* Claims on keyframe interpolation (SpecMotion) *)

\* The rotation a joint mapping gives a joint, 0 for a joint it does not name.
RotationIn(joints, joint_name) ==
    IF joint_name \in DOMAIN joints THEN joints[joint_name] ELSE R(0)

AllJoints == {"spine", "arm"}

\* The last call interpolated the keyframes of the one animation.
Interpolated ==
    /\ call.op = "_apply_animations"
    /\ call.result.applied = 1
    /\ call.result.motion.moved

\* The result has exactly the joint values of keyframe kf.
ReturnsKeyframe(kf) ==
    \A joint_name \in AllJoints :
        RotationIn(call.result.motion.joints, joint_name) = JointRotation(kf, joint_name)

\* What the call would have interpolated under linear easing.
LinearJoints ==
    _apply_motion(TheCharacter.character.image[1],
                  [TheAnimations[1] EXCEPT !.easing = "linear"],
                  TheCharacter.character.rig_data, call.result.local_time).joints

\* The local time of the call lies strictly between two keyframes that follow
\* each other.
StrictlyInside ==
    \E i \in 1..(Len(TheAnimations[1].keyframes) - 1) :
        /\ RLt(TheAnimations[1].keyframes[i].time, call.result.local_time)
        /\ RLt(call.result.local_time, TheAnimations[1].keyframes[i + 1].time)

\* The last keyframe that has the time of the first one.
LastAtFirstTime(kfs) ==
    kfs[CHOOSE i \in 1..Len(kfs) :
            /\ kfs[i].time = kfs[1].time
            /\ \A j \in 1..Len(kfs) : kfs[j].time = kfs[1].time => j <= i]

\* C7 as stated: at a local time equal to (or before) the time of the first
\* keyframe the interpolation returns exactly the first keyframe's joint
\* values, at a local time at or after the last keyframe's time exactly the
\* last keyframe's, for every easing kind; easing changes the result only
\* strictly between two keyframes.
C7_BoundaryAsStated ==
    Interpolated =>
        LET kfs == TheAnimations[1].keyframes
            local_time == call.result.local_time
        IN  /\ RLe(local_time, kfs[1].time) => ReturnsKeyframe(kfs[1])
            /\ RLe(kfs[Len(kfs)].time, local_time) => ReturnsKeyframe(kfs[Len(kfs)])
            /\ ~StrictlyInside => call.result.motion.joints = LinearJoints

\* C7 amended: before the time of the first keyframe the interpolation
\* returns exactly the first keyframe's joint values; at that time exactly
\* those of the last keyframe that has that time (the first keyframe itself
\* unless a later one shares its time); at or after the last keyframe's time
\* exactly the last keyframe's; all this for every easing kind, and easing
\* changes the result only strictly between two keyframes.
C7_Boundary ==
    Interpolated =>
        LET kfs == TheAnimations[1].keyframes
            local_time == call.result.local_time
        IN  /\ RLt(local_time, kfs[1].time) => ReturnsKeyframe(kfs[1])
            /\ local_time = kfs[1].time => ReturnsKeyframe(LastAtFirstTime(kfs))
            /\ RLe(kfs[Len(kfs)].time, local_time) => ReturnsKeyframe(kfs[Len(kfs)])
            /\ ~StrictlyInside => call.result.motion.joints = LinearJoints

\* C7 witness: a bounce-eased call at the time the first two keyframes
\* share, which returns the second keyframe's values and not the first's.
C7_Witness ==
    /\ Interpolated
    /\ TheAnimations[1].easing = "bounce"
    /\ Len(TheAnimations[1].keyframes) = 2
    /\ TheAnimations[1].keyframes[1].time = TheAnimations[1].keyframes[2].time
    /\ call.result.local_time = TheAnimations[1].keyframes[1].time
    /\ JointRotation(TheAnimations[1].keyframes[1], "spine") = R(0)
    /\ JointRotation(TheAnimations[1].keyframes[2], "spine") = R(90)
    /\ ReturnsKeyframe(TheAnimations[1].keyframes[2])
    /\ ~ReturnsKeyframe(TheAnimations[1].keyframes[1])

\* The keyframes of Scenario A: {0: rotation 0, 2: rotation 90}.
ScenarioKeyframes ==
    <<[time |-> R(0), joints |-> [joint_name \in {"spine"} |-> R(0)]],
      [time |-> R(2), joints |-> [joint_name \in {"spine"} |-> R(90)]]>>

\* The last call is the one of Scenario A: linear easing, the animation
\* starting at 1, scene time 2.
ScenarioCall ==
    /\ call.op = "_apply_animations"
    /\ TheAnimations[1].keyframes = ScenarioKeyframes
    /\ TheAnimations[1].easing = "linear"
    /\ ~TheAnimations[1].loop
    /\ TheAnimations[1].start_time = R(1)
    /\ call.time = R(2)

\* C8: when some keyframe has a time <= local_time, prev is the last such
\* keyframe and next the keyframe right after it (prev itself when prev is
\* the last); with t = (local_time - prev.time) / (next.time - prev.time)
\* when that range is > 0 and t = 0 otherwise, the result names exactly the
\* joints of prev or next, each with prev_value * (1 - ease(t)) +
\* next_value * ease(t), a joint missing from one counting as 0; and the call
\* of Scenario A yields 45.
C8_Interpolation ==
    /\ Interpolated =>
        LET kfs == TheAnimations[1].keyframes
            local_time == call.result.local_time
            hits == {i \in 1..Len(kfs) : RLe(kfs[i].time, local_time)}
        IN  hits # {} =>
              LET p == CHOOSE i \in hits : \A j \in hits : j <= i
                  n == IF p < Len(kfs) THEN p + 1 ELSE p
                  range == RSub(kfs[n].time, kfs[p].time)
                  t == IF RLt(R(0), range)
                       THEN RDiv(RSub(local_time, kfs[p].time), range)
                       ELSE R(0)
                  e == _ease(t, TheAnimations[1].easing)
                  m == call.result.motion
              IN  /\ m.prev = p
                  /\ m.next = n
                  /\ DOMAIN m.joints = (DOMAIN kfs[p].joints) \cup (DOMAIN kfs[n].joints)
                  /\ \A joint_name \in DOMAIN m.joints :
                        m.joints[joint_name] =
                            RAdd(RMul(JointRotation(kfs[p], joint_name), RSub(R(1), e)),
                                 RMul(JointRotation(kfs[n], joint_name), e))
    /\ ScenarioCall =>
        /\ Interpolated
        /\ call.result.motion.joints["spine"] = R(45)

\* C8 witness: the call of Scenario A, made and yielding 45, prev and next
\* being the two keyframes.
C8_Witness ==
    /\ ScenarioCall
    /\ Interpolated
    /\ call.result.motion.prev = 1
    /\ call.result.motion.next = 2
    /\ call.result.motion.joints["spine"] = R(45)

---------------------------------------------------------------------------
(* Claims on the active animation (SpecAnim) *)

\* The rule of the active window: a looping animation from its start on, a
\* non-looping one from its start for its effective duration.
InWindow(anim, time) ==
    LET E == RMul(anim.duration, anim.speed_multiplier)
    IN  IF anim.loop THEN RLe(anim.start_time, time)
        ELSE RLe(anim.start_time, time) /\ RLt(time, RAdd(anim.start_time, E))

\* No animation listed before the i-th is in its window.
NoneEarlier(i, time) == \A j \in 1..(i - 1) : ~InWindow(TheAnimations[j], time)

Resolved == call.op = "_apply_animations" /\ ~call.result.raised

\* The character's image before the call.
BaseImage == TheCharacter.character.image[1]

\* The result of the call were animations[i] the only animation, at a time.
Alone(i, time) ==
    _apply_animations(BaseImage, [TheCharacter EXCEPT !.animations = <<TheAnimations[i]>>],
                      TheCharacter.character.rig_data, time)

\* C4: a non-looping animation with start_time s and effective duration
\* E = duration * speed_multiplier is the one applied at scene-local time t
\* exactly when s <= t < s + E and no earlier-listed animation is active, and
\* then at animation-local time t - s; at t < s or t >= s + E it is not
\* applied.
C4_NonLoopingWindow ==
    Resolved =>
        \A i \in 1..Len(TheAnimations) :
            LET anim == TheAnimations[i]
                s == anim.start_time
                E == RMul(anim.duration, anim.speed_multiplier)
                t == call.time
            IN  ~anim.loop =>
                  /\ (call.result.applied = i) <=>
                        (RLe(s, t) /\ RLt(t, RAdd(s, E)) /\ NoneEarlier(i, t))
                  /\ call.result.applied = i => call.result.local_time = RSub(t, s)
                  /\ (RLt(t, s) \/ RLe(RAdd(s, E), t)) => call.result.applied # i

\* C4 witness: a non-looping animation whose effective duration differs
\* from its duration, applied after its start, past its duration.
C4_Witness ==
    /\ Resolved
    /\ call.result.applied = 1
    /\ ~TheAnimations[1].loop
    /\ TheAnimations[1].speed_multiplier = R(2)
    /\ RLe(RAdd(TheAnimations[1].start_time, TheAnimations[1].duration), call.time)
    /\ call.result.local_time = RSub(call.time, TheAnimations[1].start_time)
    /\ ~RIsZero(call.result.local_time)

ActiveSet == {i \in 1..Len(TheAnimations) : InWindow(TheAnimations[i], call.time)}

\* C6: when several animations are active at one time, the motion applied
\* is that of the first active animation in the order of the list and of no
\* other; when none is active the character's image is returned unchanged.
C6_FirstActive ==
    Resolved =>
        IF ActiveSet = {}
        THEN /\ call.result.applied = 0
             /\ call.result.image = BaseImage
             /\ ~call.result.motion.moved
        ELSE LET first == CHOOSE i \in ActiveSet : \A j \in ActiveSet : i <= j
             IN  /\ call.result.applied = first
                 /\ call.result.image = Alone(first, call.time).image
                 /\ call.result.motion = Alone(first, call.time).motion

\* C6 witness: two animations active at once, whose motions differ at that
\* time; the image is the one the first gives, not the one the second gives.
C6_Witness ==
    /\ Resolved
    /\ ActiveSet = {1, 2}
    /\ call.result.applied = 1
    /\ call.result.image = Alone(1, call.time).image
    /\ call.result.image # Alone(2, call.time).image
    /\ call.result.image # BaseImage

\* C6 witness of the base pose: animations, none of them active.
C6_WitnessBasePose ==
    /\ Resolved
    /\ Len(TheAnimations) = 2
    /\ ActiveSet = {}
    /\ call.result.image = BaseImage

---------------------------------------------------------------------------
(* Claims on the rendering of a scene (SpecScene) *)

TheScene == project.scenes[1]

SceneRendered == call.op = "_render_scene_at_time" /\ ~call.result.raised

\* The positions in the frame's layers of the layer of a kind and id.
LayerPositions(kind, id) ==
    {n \in 1..Len(call.result.layers) : call.result.layers[n] = Layer(kind, id)}

\* The k-th stored character was composited.
Composited(k) == LayerPositions("character", k) # {}

\* C9 as stated: at scene-local time t a character is composited if and
\* only if enter_time <= t and (exit_time is null or t < exit_time); one
\* whose exit_time is set is never drawn at t >= exit_time, whatever the
\* value of exit_time, 0 included.
C9_VisibleWindow ==
    SceneRendered =>
        \A k \in 1..Len(TheScene.scene_characters) :
            LET sc == TheScene.scene_characters[k]
            IN  ~IsNone(sc.character.image) =>
                  (Composited(k) <=>
                      /\ RLe(sc.enter_time, call.time)
                      /\ (IsNone(sc.exit_time) \/ RLt(call.time, sc.exit_time[1])))

\* C9: a state where the code diverges: a character with exit_time 0 is
\* composited at a time >= 0.
C9_DrawnAfterExit ==
    /\ SceneRendered
    /\ \E k \in 1..Len(TheScene.scene_characters) :
          /\ TheScene.scene_characters[k].exit_time = Some(R(0))
          /\ Composited(k)

\* The last character layer of the frame.
TopCharacter ==
    LET chars == {n \in 1..Len(call.result.layers) :
                     call.result.layers[n].kind = "character"}
    IN  call.result.layers[CHOOSE n \in chars : \A m \in chars : m <= n].id

\* C10: the characters composited are composited in ascending z_index (a
\* before b when z_index(a) < z_index(b)), the background before every
\* character and the text overlays after every character; so with opaque
\* characters on one pixel and no text drawn, the pixel has the colour of
\* the character composited last, which none of them exceeds in z_index.
C10_PaintOrder ==
    SceneRendered =>
        LET layers == call.result.layers
        IN  /\ \A a, b \in 1..Len(TheScene.scene_characters) :
                  (/\ Composited(a) /\ Composited(b)
                   /\ TheScene.scene_characters[a].z_index
                        < TheScene.scene_characters[b].z_index)
                  => \A n \in LayerPositions("character", a),
                        m \in LayerPositions("character", b) : n < m
            /\ \A n, m \in 1..Len(layers) :
                  (layers[n].kind = "background" /\ layers[m].kind = "character")
                  => n < m
            /\ \A n, m \in 1..Len(layers) :
                  (layers[n].kind = "character" /\ layers[m].kind = "text") => n < m
            /\ \A k \in 1..Len(TheScene.scene_characters) :
                  Cardinality(LayerPositions("character", k)) <= 1
            /\ (/\ \E k \in 1..Len(TheScene.scene_characters) : Composited(k)
                /\ \A n \in 1..Len(layers) : layers[n].kind # "text")
               => /\ call.result.canvas.px[<<0, 0>>].c = CharacterColour(TopCharacter)
                  /\ \A k \in 1..Len(TheScene.scene_characters) :
                        Composited(k) =>
                            TheScene.scene_characters[k].z_index
                                <= TheScene.scene_characters[TopCharacter].z_index

\* C10 witness: a background image, then the character stored second (of
\* the lower z_index), then the character stored first, then the text.
C10_Witness ==
    /\ SceneRendered
    /\ Len(TheScene.scene_characters) = 2
    /\ TheScene.scene_characters[1].z_index > TheScene.scene_characters[2].z_index
    /\ call.result.layers = <<Layer("background", 0), Layer("character", 2),
                              Layer("character", 1), Layer("text", 1)>>

\* C10 witness of the pixel: both characters composited, no text, and the
\* pixel has the colour of the character of the higher z_index.
C10_WitnessPixel ==
    /\ SceneRendered
    /\ Len(TheScene.scene_characters) = 2
    /\ TheScene.scene_characters[1].z_index > TheScene.scene_characters[2].z_index
    /\ call.result.layers = <<Layer("background", 0), Layer("character", 2),
                              Layer("character", 1)>>
    /\ call.result.canvas.px[<<0, 0>>].c = CharacterColour(1)


---------------------------------------------------------------------------
(* Claims on compositing (SpecComposite) *)

Composed == call.op = "_alpha_composite"

\* The canvas pixels inside the layer's rectangle put at (x, y).
Intersection ==
    {p \in DOMAIN call.canvas.px :
        /\ call.x <= p[1] /\ p[1] < call.x + call.overlay.w
        /\ call.y <= p[2] /\ p[2] < call.y + call.overlay.h}

\* C11: compositing a layer at any integer position, partly or wholly
\* outside the canvas included, never raises and changes only canvas pixels
\* inside the intersection of the layer's rectangle and the canvas; when the
\* intersection is empty the canvas is returned unchanged; an opaque layer
\* gives the pixels of the intersection its colour.
C11_Clipping ==
    Composed =>
        /\ ~call.raised
        /\ call.result.w = call.canvas.w /\ call.result.h = call.canvas.h
        /\ DOMAIN call.result.px = DOMAIN call.canvas.px
        /\ \A p \in (DOMAIN call.canvas.px) \ Intersection :
              call.result.px[p] = call.canvas.px[p]
        /\ Intersection = {} => call.result = call.canvas
        /\ call.overlay.alpha = Some(255) =>
              \A p \in Intersection : call.result.px[p].c = call.overlay.colour

\* C11 witness (Scenario B in small): an opaque layer anchored at (1, 1) of
\* a white canvas colours pixel (1, 1) and leaves pixel (0, 0) white, the
\* layer reaching past the canvas's edge.
C11_Witness ==
    /\ Composed
    /\ call.canvas.channels = 3 /\ call.canvas.w = 2 /\ call.canvas.h = 2
    /\ call.overlay.alpha = Some(255) /\ call.overlay.w = 2 /\ call.overlay.h = 2
    /\ call.x = 1 /\ call.y = 1
    /\ call.result.px[<<1, 1>>].c = LayerColour
    /\ call.result.px[<<0, 0>>].c = 255

\* C12 as stated: a layer without an alpha channel is fully opaque on either
\* kind of canvas: every covered pixel has the layer's colour, and on a
\* canvas with alpha the covered pixel's alpha is max(canvas_a, 255) = 255.
C12_OpaqueLayer ==
    (Composed /\ IsNone(call.overlay.alpha)) =>
        \A p \in Intersection :
            /\ call.result.px[p].c = call.overlay.colour
            /\ call.canvas.channels = 4 =>
                  call.result.px[p].a = Max(call.canvas.px[p].a, 255)

\* C12 witness of the divergence: a layer without alpha channel composited
\* on a transparent canvas leaves the covered pixel's alpha at 0.
C12_AlphaKept ==
    /\ Composed
    /\ IsNone(call.overlay.alpha)
    /\ call.canvas.channels = 4
    /\ \E p \in Intersection :
          /\ call.canvas.px[p].a = 0
          /\ call.result.px[p].c = call.overlay.colour
          /\ call.result.px[p].a = 0

---------------------------------------------------------------------------
(* Claims on the frame's shape (SpecScene) *)

\* C13 as stated: every frame _render_scene_at_time returns has the
\* project's height and width, and 4 channels when transparent mode is
\* requested and 3 when it is not: no step changes the channel count.
C13_FrameShape ==
    SceneRendered =>
        /\ call.result.canvas.w = project.width
        /\ call.result.canvas.h = project.height
        /\ DOMAIN call.result.canvas.px = Pixels(project.width, project.height)
        /\ call.result.canvas.channels = IF call.transparent THEN 4 ELSE 3

\* C13 witness of the divergence: a transparent render in which a text
\* overlay was drawn returns a frame of 3 channels.
C13_AlphaLost ==
    /\ SceneRendered
    /\ call.transparent
    /\ \E n \in 1..Len(call.result.layers) : call.result.layers[n].kind = "text"
    /\ call.result.canvas.channels = 3

---------------------------------------------------------------------------
(* Claims on determinism (SpecTies) *)

RenderedTwice == call.op = "_render_frame_at_time twice"

\* C14 as stated: for a fixed project and time, two renders give identical
\* frames, also when two SceneCharacters share a z_index or two Scenes share
\* an order value.
C14_Deterministic ==
    RenderedTwice => call.first.canvas = call.second.canvas

\* C14 witness of the divergence: two characters of one z_index, and the
\* two renders of the same time differ in the pixel both cover.
C14_TieDiffers ==
    /\ RenderedTwice
    /\ Len(project.scenes) = 1
    /\ project.scenes[1].scene_characters[1].z_index
           = project.scenes[1].scene_characters[2].z_index
    /\ call.first.canvas.px[<<0, 0>>].c # call.second.canvas.px[<<0, 0>>].c

---------------------------------------------------------------------------
(* Claims on the preview (SpecPreview) *)

Previewed == call.op = "render_frame"

\* C15: for a scene S starting at accumulated time a and a frame number n
\* with 0 <= n / fps < S.duration, render_frame(S, n) gives the frame the
\* export renders, not transparent, at project time a + n / fps (the rows
\* coming in the same order), and it encodes nothing: render() is neither
\* entered nor finished, no export frame is written and _encode_video is
\* not called.
C15_PreviewAsExport ==
    Previewed =>
        LET scene_time == Rat(call.frame_number, project.fps)
            time == RAdd(Accumulated(call.position), scene_time)
        IN  /\ _render_frame_at_time(project, call.order, call.z_orders, time, FALSE)
                   = FrameOfScene(call.result, call.scene, scene_time)
            /\ pc = "idle"
            /\ written = <<>>
            /\ encoder_calls = 0

\* C15 witness: the preview of the second scene of the walk at frame 2 of a
\* project of 2 frames a second, where the character is visible.
C15_Witness ==
    /\ Previewed
    /\ call.position = 2
    /\ project.fps = 2
    /\ call.frame_number = 2
    /\ call.result.layers = <<Layer("character", 1)>>
    /\ call.result.canvas.px[<<0, 0>>].c = CharacterColour(call.scene)

---------------------------------------------------------------------------
(* Claims on images that do not decode (SpecDecode) *)

\* The kinds and ids of the layers a render of the scene at the call's time
\* is to composite: the background image if it decodes, every character
\* whose image decodes, the text overlay while it is shown, the camera step
\* when the camera is not at rest.
LayersDue ==
    {Layer("background", 0) : b \in
        {b \in {TheScene.background} : ~IsNone(b) /\ ~IsNone(b[1].image)}}
    \cup {Layer("character", k) : k \in
        {k \in 1..Len(TheScene.scene_characters) :
            ~IsNone(TheScene.scene_characters[k].character.image)}}
    \cup {Layer("text", 1) : o \in
        {o \in {TheOverlay} :
            /\ RLe(o.start_time, call.time)
            /\ RLt(call.time, RAdd(o.start_time, o.duration))}}
    \cup {Layer("camera", 0) : z \in {z \in {TheScene.camera_zoom} : z # R(1)}}

\* C16: when a character's image cannot be decoded that character alone is
\* skipped, and the other characters, the overlays and the camera step of
\* the frame are still rendered; when the background image cannot be
\* decoded the canvas keeps the scene's background colour; the render does
\* not raise.
C16_SkipUndecodable ==
    call.op = "_render_scene_at_time" =>
        /\ ~call.result.raised
        /\ {call.result.layers[n] : n \in 1..Len(call.result.layers)} = LayersDue
        /\ LayersDue = {} =>
              call.result.canvas = NewCanvas(project.width, project.height,
                                             call.transparent,
                                             TheScene.background_color)

\* C16 witness: the first character's image does not decode and the second's
\* does; the second character, the text and the camera step are rendered.
C16_Witness ==
    /\ SceneRendered
    /\ Len(TheScene.scene_characters) = 2
    /\ IsNone(TheScene.scene_characters[1].character.image)
    /\ TheScene.background = Some([image |-> None])
    /\ call.result.layers = <<Layer("character", 2), Layer("text", 1),
                              Layer("camera", 0)>>

---------------------------------------------------------------------------
(* Claims on empty motion data (SpecPreset) *)

\* The keyframe list of the animation's motion data is empty, inline or in
\* its preset.
EmptyKeyframeList ==
    IF IsNone(TheAnimations[1].motion_preset)
    THEN TheAnimations[1].keyframes = <<>>
    ELSE TheAnimations[1].motion_preset[1].motion_data.keyframes = Some(<<>>)

\* C17 as stated: when the active animation's motion data has an empty
\* keyframe list, inline or through its MotionPreset, the character is
\* rendered in its base pose (the image unchanged) and nothing raises.
C17_EmptyKeyframes ==
    (call.op = "_apply_animations" /\ call.result.applied = 1 /\ EmptyKeyframeList) =>
        /\ ~call.result.raised
        /\ call.result.image = BaseImage

\* C17 witness of the divergence: the animation's preset has the motion
\* data {'keyframes': []}, and _apply_motion raises at keyframes[0].
C17_PresetRaises ==
    /\ call.op = "_apply_animations"
    /\ call.result.applied = 1
    /\ ~IsNone(TheAnimations[1].motion_preset)
    /\ TheAnimations[1].motion_preset[1].motion_data.keyframes = Some(<<>>)
    /\ call.result.raised

---------------------------------------------------------------------------
(* Claims on the output size (SpecQuality) *)

\* C19: for every quality value, the four presets and any unknown value,
\* and every project size, the export's output width is <= project.width
\* and <= the chosen preset's width, and its height alike (an unknown
\* quality choosing the preset high): never upscaled past the project.
C19_NoUpscale ==
    call.op = "render" =>
        LET preset == IF call.quality = "low" THEN <<854, 480>>
                      ELSE IF call.quality = "medium" THEN <<1280, 720>>
                      ELSE IF call.quality = "ultra" THEN <<3840, 2160>>
                      ELSE <<1920, 1080>>
        IN  /\ call.out.width <= project.width
            /\ call.out.height <= project.height
            /\ call.out.width <= preset[1]
            /\ call.out.height <= preset[2]
            /\ call.out.width \in {project.width, preset[1]}
            /\ call.out.height \in {project.height, preset[2]}

\* C19 witness: a project of 1920 x 480 exported at ultra keeps its size,
\* below the preset's 3840 x 2160.
C19_Witness ==
    /\ call.op = "render"
    /\ call.quality = "ultra"
    /\ project.width = 1920 /\ project.height = 480
    /\ call.out = [width |-> 1920, height |-> 480]
---------------------------------------------------------------------------
(* Claims on the export task (SpecExport) *)

\* _encode_video has raised in this export.
EncoderFailed == exception = EncoderError

\* _encode_video has returned in this export.
EncoderSucceeded == encoder_calls = 1 /\ exception # EncoderError

\* C18: the encoder is called at most once in an export; once it has failed
\* the export only goes on to its handler and the return of render_export,
\* the encoder is not called again, no credits are deducted from the user,
\* the export is never completed, and render_export returns with the status
\* 'failed' and the message of the encoder's failure as error_message.
C18_EncoderFailureFatal ==
    /\ encoder_calls <= 1
    /\ EncoderFailed =>
           /\ encoder_calls = 1
           /\ pc \in {"raised", "returned"}
           /\ deducted = 0
           /\ export.status # "completed"
           /\ export.credits_used = 0
           /\ pc = "returned" =>
                  /\ export.status = "failed"
                  /\ export.error_message = EncoderError

\* C18 witness: render_export has returned after the encoder failed on the
\* frames of an export whose user, without a plan, had the credits for it.
C18_Witness ==
    /\ EncoderFailed
    /\ pc = "returned"
    /\ Len(written) > 0
    /\ ~user.is_plan_active
    /\ CreditsNeeded > 0
    /\ user.credits >= CreditsNeeded

\* C20: the progress callback has been called once for each frame written
\* and once more when the encoder has succeeded; the values are integers of
\* 0..100 that never decrease; 100 is only the last value, reported after
\* all the frames were written and the encoder succeeded; and the Export's
\* progress is within 0..100 and is 100 only after the encoder succeeded.
C20_Progress ==
    /\ Len(progress_calls) = Len(written) + (IF EncoderSucceeded THEN 1 ELSE 0)
    /\ \A k \in 1..Len(progress_calls) :
           /\ progress_calls[k] \in 0..100
           /\ k < Len(progress_calls) => progress_calls[k] <= progress_calls[k + 1]
           /\ progress_calls[k] = 100 =>
                  /\ EncoderSucceeded
                  /\ k = Len(progress_calls)
                  /\ Len(written) = total_frames
    /\ export.progress \in 0..100
    /\ export.progress = 100 =>
           /\ EncoderSucceeded
           /\ pc \in {"done", "completed", "deducted", "raised", "returned"}

\* C20 witness: a completed export of three frames or more, whose progress
\* went from 0 through a larger value below 100 to 100.
C20_Witness ==
    /\ pc = "returned"
    /\ export.status = "completed"
    /\ Len(progress_calls) >= 4
    /\ progress_calls[1] = 0
    /\ progress_calls[2] > 0
    /\ progress_calls[Len(progress_calls) - 1] < 100
    /\ progress_calls[Len(progress_calls)] = 100
    /\ export.progress = 100

---------------------------------------------------------------------------
(* Claims on the easing curves (SpecEase) *)

\* _ease has been called with one of the five named kinds.
Eased ==
    /\ call.op = "_ease"
    /\ call.easing \in {"linear", "ease-in", "ease-out", "ease-in-out", "bounce"}

\* C21: for each of the five easing kinds and every t, _ease(t) is within
\* [0, 1], is 0 for t < 0 and is 1 for t > 1.
C21_Clamped ==
    Eased =>
        /\ RLe(R(0), call.result)
        /\ RLe(call.result, R(1))
        /\ RLt(call.t, R(0)) => call.result = R(0)
        /\ RLt(R(1), call.t) => call.result = R(1)

\* C21: _ease(2, 'linear') has returned 2.
C21_OutOfRange ==
    /\ Eased
    /\ call.easing = "linear"
    /\ call.t = R(2)
    /\ call.result = R(2)

---------------------------------------------------------------------------
(* Claims on the image cache (SpecCache) *)

\* C22: after any sequence of frames every entry of the image cache is a
\* buffer of its own that holds the array decoded from its file.
C22_CacheIntact ==
    /\ \A path \in DOMAIN image_cache :
           /\ image_cache[path] \in DOMAIN heap
           /\ heap[image_cache[path]] = ArrayOf(path[1])
    /\ \A p, q \in DOMAIN image_cache : image_cache[p] = image_cache[q] => p = q

\* C22 witness: a frame in which the background and a character came from
\* the cache and the character was composited over the background.
C22_Witness ==
    /\ call.op = "_render_scene_at_time in buffers"
    /\ call.hits >= 2
    /\ Cardinality(DOMAIN image_cache) >= 2
    /\ ~IsNone(project.scenes[1].background)
    /\ ~call.transparent
    /\ call.time = R(0)
    /\ call.result.px[<<0, 0>>].c = CharacterColour(1)

---------------------------------------------------------------------------
(* Claims on keyframes in any order (SpecUnsorted) *)

\* The joints _apply_motion interpolates at the call's local time from the
\* animation's keyframes sorted by time.
JointsOfSorted ==
    _apply_motion(TheCharacter.character.image[1],
                  [TheAnimations[1] EXCEPT
                      !.keyframes = SortedByTime(TheAnimations[1].keyframes)],
                  TheCharacter.character.rig_data,
                  call.result.local_time).joints

\* C23: for every keyframe list and every local time, the joints
\* _apply_motion interpolates are those it interpolates from the same
\* keyframes sorted ascending by time.
C23_AsIfSorted ==
    Interpolated => call.result.motion.joints = JointsOfSorted

\* C23: keyframes (time 2, spine 90), (time 0, spine 0) at local time 1: the
\* spine is at 90, where the sorted list gives 45.
C23_UnsortedDiffers ==
    /\ Interpolated
    /\ TheAnimations[1].keyframes =
           <<[time |-> R(2), joints |-> [joint_name \in {"spine"} |-> R(90)]],
             [time |-> R(0), joints |-> [joint_name \in {"spine"} |-> R(0)]]>>
    /\ call.result.local_time = R(1)
    /\ call.result.motion.joints["spine"] = R(90)
    /\ JointsOfSorted["spine"] = R(45)

---------------------------------------------------------------------------
(* Claims on text overlays (SpecText) *)

\* The scene's one overlay, and its clip time at the call.
TheText == project.scenes[1].text_overlays[1]
ClipTime == RSub(call.time, TheText.start_time)

\* The overlay was processed in the call.
TextProcessed == \E k \in 1..Len(call.result.layers) : call.result.layers[k].kind = "text"

\* The opacity as stated: for 'fade' the ramp up over the first half second,
\* the ramp down over the last, 1 between; 1 for every other kind.
StatedOpacity ==
    IF TheText.animation # "fade" THEN R(1)
    ELSE IF RLt(ClipTime, Rat(1, 2)) THEN RMul(ClipTime, R(2))
    ELSE IF RLt(RSub(TheText.duration, Rat(1, 2)), ClipTime)
         THEN RMul(RSub(TheText.duration, ClipTime), R(2))
    ELSE R(1)

\* The pixel at (position_x % of the width, position_y % of the height).
TextPixel ==
    <<RInt(RDiv(RMul(TheText.position_x, R(project.width)), R(100))),
      RInt(RDiv(RMul(TheText.position_y, R(project.height)), R(100)))>>

\* The pixels of the frame showing the text's colour.
TextPixels == {p \in DOMAIN call.result.canvas.px : call.result.canvas.px[p].c = TextColour}

\* C24: the overlay is processed exactly when start_time <= t < start_time +
\* duration; the text shows exactly when it is processed with a stated
\* opacity >= 0.1, and then at its percentage position and nowhere else.
C24_TextOverlay ==
    call.op = "_render_scene_at_time" =>
        /\ TextProcessed <=>
               /\ RLe(TheText.start_time, call.time)
               /\ RLt(call.time, RAdd(TheText.start_time, TheText.duration))
        /\ TextPixels = IF TextProcessed /\ RLe(Rat(1, 10), StatedOpacity)
                        THEN {TextPixel}
                        ELSE {}

\* C24 witness: a fading overlay of 2 s from 1 s on, at 2.9 s, fading out
\* (opacity 0.2) and drawn at pixel (1, 1).
C24_Witness ==
    /\ call.op = "_render_scene_at_time"
    /\ TheText.animation = "fade"
    /\ TheText.start_time = R(1)
    /\ TheText.duration = R(2)
    /\ call.time = Rat(29, 10)
    /\ StatedOpacity = Rat(1, 5)
    /\ TextPixel = <<1, 1>>
    /\ TextPixels = {<<1, 1>>}

\* C24 witness: the same overlay a moment into its fade-in (opacity 0),
\* processed and not drawn.
C24_WitnessHidden ==
    /\ call.op = "_render_scene_at_time"
    /\ TheText.animation = "fade"
    /\ TheText.start_time = R(1)
    /\ call.time = R(1)
    /\ TextProcessed
    /\ TextPixels = {}

---------------------------------------------------------------------------
(* Claims on the camera (SpecCamera) *)

\* The positions of the camera transform among the layers of the frame.
CameraPositions ==
    {k \in 1..Len(call.result.layers) : call.result.layers[k].kind = "camera"}

\* The scene's camera is not the default one.
CameraMoved ==
    \/ project.scenes[1].camera_zoom # R(1)
    \/ project.scenes[1].camera_x # R(0)
    \/ project.scenes[1].camera_y # R(0)

\* C25: the camera transform is applied exactly when zoom # 1 or x # 0 or
\* y # 0, then once and after every character and text overlay; and the
\* pixels it exposes have the scene's background colour: an opaque frame
\* with nothing drawn on it has that colour everywhere.
C25_Camera ==
    call.op = "_render_scene_at_time" =>
        /\ CameraPositions = IF CameraMoved THEN {Len(call.result.layers)} ELSE {}
        /\ (/\ ~call.transparent
            /\ \A k \in 1..Len(call.result.layers) : call.result.layers[k].kind = "camera")
           => \A p \in DOMAIN call.result.canvas.px :
                  call.result.canvas.px[p].c = project.scenes[1].background_color

\* C25: a camera zooming out of an empty scene of background colour 50
\* leaves the pixel (1, 1) at 50 and the exposed pixel (0, 0) white.
C25_WhiteBorder ==
    /\ call.op = "_render_scene_at_time"
    /\ ~call.transparent
    /\ call.result.layers = <<Layer("camera", 0)>>
    /\ project.scenes[1].background_color = 50
    /\ project.scenes[1].camera_zoom = Rat(1, 2)
    /\ project.scenes[1].camera_x = R(0)
    /\ project.scenes[1].camera_y = R(0)
    /\ call.result.canvas.px[<<1, 1>>].c = 50
    /\ call.result.canvas.px[<<0, 0>>].c = 255

\* C25: the rest of the claim holds, the camera being applied when moved,
\* once and last.
C25_AppliedLast ==
    call.op = "_render_scene_at_time" =>
        CameraPositions = IF CameraMoved THEN {Len(call.result.layers)} ELSE {}

---------------------------------------------------------------------------
(* Claims on the background image (SpecBackground) *)

\* The scene's background image.
TheBackground == project.scenes[1].background[1].image[1]

\* An opaque frame of a scene whose opaque background image has the size of
\* the canvas.
FullBackground ==
    /\ call.op = "_render_scene_at_time"
    /\ ~call.transparent
    /\ TheBackground.w = project.width
    /\ TheBackground.h = project.height
    /\ TheBackground.alpha \in {None, Some(255)}

\* C26: with an opaque background image of the size of the canvas, in
\* opaque mode, every pixel of the canvas has the image's colour before a
\* character is drawn.
C26_Prefilled ==
    FullBackground =>
        \A p \in DOMAIN call.result.canvas.px :
            call.result.canvas.px[p].c = TheBackground.colour

\* C26: a canvas of 2 x 2 with a background image of 2 x 2: the image covers
\* pixel (0, 0) only, the other pixels show the background colour.
C26_QuarterCovered ==
    /\ FullBackground
    /\ project.width = 2
    /\ project.height = 2
    /\ project.scenes[1].background_color = 50
    /\ call.result.canvas.px[<<0, 0>>].c = BackgroundColourOfImage
    /\ call.result.canvas.px[<<1, 0>>].c = 50
    /\ call.result.canvas.px[<<0, 1>>].c = 50
    /\ call.result.canvas.px[<<1, 1>>].c = 50

---------------------------------------------------------------------------
(* Claims on malformed timing (SpecTiming) *)

\* C27: for every animation, whatever its duration and speed_multiplier,
\* resolving the active animation at any scene-local time raises nothing
\* and gives the character's image, moved or in its base pose.
C27_NeverRaises ==
    call.op = "_apply_animations" =>
        /\ ~call.result.raised
        /\ call.result.image.colour = TheCharacter.character.image[1].colour

\* C27: a looping animation of effective duration 0, resolved at a time
\* from its start on, has raised ZeroDivisionError.
C27_ZeroDivision ==
    /\ call.op = "_apply_animations"
    /\ TheAnimations[1].loop
    /\ TheAnimations[1].duration = R(2)
    /\ TheAnimations[1].speed_multiplier = R(0)
    /\ RLe(TheAnimations[1].start_time, call.time)
    /\ call.result.raised
    /\ call.result.applied = 1

\* C27: the animations that raise are the looping ones of effective
\* duration 0, from their start on; a negative effective duration and a
\* non-looping animation raise nothing.
C27_OnlyZeroLoops ==
    call.op = "_apply_animations" =>
        (call.result.raised <=>
            /\ TheAnimations[1].loop
            /\ RIsZero(EffectiveDuration(TheAnimations[1]))
            /\ RLe(TheAnimations[1].start_time, call.time))

---------------------------------------------------------------------------
(* Claims on aborted exports (SpecAbort) *)

\* render() has been called and is over: it returned or it raised.
RenderOver ==
    /\ temp_dir # "none"
    /\ pc \in {"done", "raised", "completed", "deducted", "returned"}

\* render() was left by an exception, of a frame or of the encoder.
RenderAborted == exception \in {FrameError, EncoderError}

\* C28: when render() is over, its temporary directory has been removed,
\* whether it returned or was aborted at a frame or in the encoder; and an
\* aborted render() has returned no output path, a path being returned
\* only after all frames were written and the encoder succeeded.
C28_Cleanup ==
    /\ RenderOver => temp_dir = "removed"
    /\ RenderAborted => RenderOver /\ output_path = None
    /\ output_path # None =>
           /\ RenderOver
           /\ EncoderSucceeded
           /\ Len(written) = total_frames

\* C28 witness: render() aborted by its second frame, after the first was
\* written: the directory is removed and there is no output path.
C28_Witness ==
    /\ pc = "raised"
    /\ exception = FrameError
    /\ Len(written) = 1
    /\ Len(rendered) = 2
    /\ temp_dir = "removed"
    /\ output_path = None

\* C28 witness: render() aborted in the encoder.
C28_WitnessEncoder ==
    /\ pc = "raised"
    /\ exception = EncoderError
    /\ Len(written) >= 1
    /\ temp_dir = "removed"
    /\ output_path = None

---------------------------------------------------------------------------
(* Claims on the status of an export (SpecExport) *)

\* One step of the status: queued -> processing -> completed | failed, the
\* two end states being kept.
StatusStep ==
    \/ export'.status = export.status
    \/ export.status = "queued" /\ export'.status = "processing"
    \/ export.status = "processing" /\ export'.status \in {"completed", "failed"}

\* C30: the status goes queued -> processing -> completed | failed and
\* stays at completed and at failed, whatever fails later in render_export;
\* and no credits have been deducted for an export that is failed.
C30_FinalStatus ==
    /\ [][StatusStep]_vars
    /\ [](export.status = "failed" => deducted = 0)

\* C30: an export that was saved as completed and paid for, and then saved
\* as failed because os.remove of the output file raised.
C30_CompletedThenFailed ==
    /\ pc = "returned"
    /\ export.status = "failed"
    /\ export.error_message = "OSError"
    /\ export.credits_used > 0
    /\ export.progress = 100
    /\ deducted = export.credits_used

---------------------------------------------------------------------------
(* Claims on jobs side by side (SpecJobs) *)

\* The sum of credits_needed over the first n jobs that completed.
RECURSIVE NeededByCompleted(_)
NeededByCompleted(n) ==
    IF n = 0 THEN 0
    ELSE NeededByCompleted(n - 1)
         + (IF jobs[n].status = "completed" THEN jobs[n].credits_needed ELSE 0)

\* Every job has returned.
AllReturned == \A j \in DOMAIN jobs : jobs[j].pc = "returned"

\* C29: under any interleaving of the jobs the user's credits are never
\* negative, and when all jobs have returned the credits taken from the
\* user are the sum of credits_needed over the exports that completed.
C29_Credits ==
    /\ user.credits >= 0
    /\ AllReturned => deducted = NeededByCompleted(Len(jobs))

\* C29: two exports of 3 credits each for a user holding 3: both jobs
\* loaded the row before either saved it, both completed, and 3 credits
\* were taken for the 6 needed.
C29_LostDeduction ==
    /\ Len(jobs) = 2
    /\ AllReturned
    /\ jobs[1].status = "completed"
    /\ jobs[2].status = "completed"
    /\ jobs[1].credits_needed = 3
    /\ jobs[2].credits_needed = 3
    /\ user.credits = 0
    /\ deducted = 3

\* C29: the credits of the user are never negative.
C29_NeverNegative == user.credits >= 0

=============================================================================
